---- MODULE Spec2Model ----
(***************************************************************************)
(* Model of the panel-to-video compositing engine,                         *)
(* backend/app/services/video_service.py (VideoService.generate_video).    *)
(*                                                                         *)
(* One build is a sequential program; pc is its position.  The environment *)
(* (image sources, the file system, the ffmpeg process) answers every      *)
(* request nondeterministically: each attempt to load an image, to write a *)
(* file, to run the encoder or to remove the workspace may succeed or fail.*)
(*                                                                         *)
(* The module holds one specification per component:                       *)
(*   Spec        one build of generate_video                               *)
(*   SpecGeom    _scale_to_cover followed by _crop_center                  *)
(*   SpecBuilds  several builds on the video_service singleton             *)
(*   SpecRoute   should_continue on an arbitrary workflow state            *)
(*   SpecFid     one run of run_fidelity_workflow (FairFid: with progress) *)
(*   SpecScroll  the frames of one scroll transition                       *)
(*   SpecBubble  the place of one bubble on the canvas and in the frame    *)
(*   SpecCalls   several run_fidelity_workflow calls in flight              *)
(* Each specification moves the variables of its component and leaves the  *)
(* variables of the other components at their idle values.                 *)
(***************************************************************************)
EXTENDS Integers, Sequences, FiniteSets, TLC

\* ------------------------------------------------------------------ bounds
MaxPanels == 2
MaxBubbles == 2

\* ------------------------------------------------------------- input space
\* VideoPanelData.  image_url is an opaque reference: which branch of the
\* resolver it takes and whether the load succeeds is decided at each load.
\* bubbles is the length of panel.bubbles (the bubbles of a panel are
\* numbered 1..bubbles in list order).  panel_number is the caller's ordering
\* key: 10, 20, ... so that it is never confused with a list index.
PanelNumber(i) == 10 * i

PanelsOfLength(n) ==
    { [i \in 1..n |-> [panel_number |-> PanelNumber(i), bubbles |-> b[i]]] :
        b \in [1..n -> 0..MaxBubbles] }

PanelLists ==
    UNION { PanelsOfLength(n) : n \in 0..MaxPanels }

\* VideoConfig: the timing fields.  Durations are integers of milliseconds.
\* The first has a duration that is not a whole number of frames (1.5, 1, 1
\* and 2 frames), the second has transition_duration_ms = 0 (1, 2, 1 and 0
\* frames), the third shows bubbles and transitions only (0, 1, 0 and 1
\* frames), the fourth has durations shorter than a frame in every phase (0
\* frames each).  For these values duration_ms / 1000 * fps is exact in
\* double precision, so int() of it is the integer quotient.
Configs ==
    { [fps |-> 4, base_duration_ms |-> 375, bubble_duration_ms |-> 250,
       final_pause_ms |-> 250, transition_duration_ms |-> 500],
      [fps |-> 2, base_duration_ms |-> 500, bubble_duration_ms |-> 1000,
       final_pause_ms |-> 500, transition_duration_ms |-> 0],
      [fps |-> 2, base_duration_ms |-> 0, bubble_duration_ms |-> 500,
       final_pause_ms |-> 0, transition_duration_ms |-> 500],
      [fps |-> 1, base_duration_ms |-> 500, bubble_duration_ms |-> 500,
       final_pause_ms |-> 500, transition_duration_ms |-> 500] }

\* The output_path argument: None or a path chosen by the caller.
OutputArgs == {"None", "user"}

\* app/assets/bubble.png: missing, loadable, or present but not loadable.
AssetStates == {"absent", "ok", "corrupt"}

VARIABLES
    panels,        \* argument panels: a member of PanelLists
    config,        \* self.config
    output_arg,    \* argument output_path as passed by the caller
    asset,         \* state of the bubble asset file
    pc,            \* position in generate_video
    panel_idx,     \* enumerate(panels) index, 0-based
    bubble_idx,    \* number of bubbles of the current panel already shown
    k,             \* iterations done of the current frame loop
    frame_idx,     \* frame_idx
    frame_paths,   \* frame_paths, as the sequence of frame numbers appended
    temp_dir,      \* "none" | "present" | "removed"
    files,         \* frame files in temp_dir: frame number -> content
    timeline,      \* the frames saved so far, in the order they were saved
    bubble_img,    \* frame_with_bubble of the bubble being shown
    heap,          \* image objects of the panel being rendered: id -> content
    refs,          \* which object each local name of the panel loop is bound to
    output_path,   \* local output_path: "None" | "user" | "ws" | "gen"
    enc_calls,     \* number of subprocess.run calls
    enc_proc,      \* "none" | "running" | "exit0" | "nonzero" | "killed"
    enc_stderr,    \* len(result.stderr) of the finished ffmpeg process
    out_ws,        \* temp_dir/output.mp4: "absent" | "partial" | "complete"
    out_user,      \* file at the caller's path
    out_gen,       \* the NamedTemporaryFile webtoon_video_*.mp4
    result,        \* what generate_video returned or raised
    resolve_log,   \* every attempt to load a panel image, in order
    errors         \* every exception that occurred, in order

\* _scale_to_cover and _crop_center on one image (SpecGeom).
VARIABLES
    geom_pc,       \* "idle" | "img" | "scaled" | "cropped"
    img_size,      \* (img.width, img.height) of the source image
    target_size,   \* (self.config.width, self.config.height)
    scaled_size,   \* size of the image _scale_to_cover returned
    crop_box,      \* (left, top, right, bottom) passed to img.crop
    cropped_size   \* size of the image _crop_center returned

\* Several generate_video calls on the module-level video_service (SpecBuilds).
VARIABLES
    builds,        \* per build: its position and its locals
    fs_dirs,       \* directories that exist under the system temp directory
    fs_files,      \* frame files that exist: (directory, frame number, writer)
    shared_font,   \* video_service._font: "None" | "loaded"
    write_log,     \* every frame.save: path and the build that wrote
    rm_log,        \* every file removed by a teardown: its writer, its remover
    attr_log       \* every assignment to an attribute of video_service

\* should_continue applied to a workflow state (SpecRoute).
VARIABLES
    route_state,   \* the state dict passed to should_continue
    route          \* what it returned; "none" before the call

\* One run of run_fidelity_workflow (SpecFid).
VARIABLES
    wf_args,       \* the arguments of run_fidelity_workflow
    wf_pc,         \* "call" | the node to run next | "routing" | "END" | "returned"
    wf_state,      \* the WebtoonFidelityState of the graph
    wf_threshold,  \* fidelity_evaluator.validation_threshold
    wf_response,   \* the FidelityValidationResponse returned
    blind_read,    \* the last run of blind_reader_node: the state it got,
                   \* its filtered_state, the arguments it called the reader with
    evaluations,   \* evaluations the evaluator node completed
    loops,         \* times the edge evaluator -> webtoon_scripter was taken
    runs,          \* per node: how often it ran
    failures       \* every node failure: the node and the value of loops then

\* The transition loop of generate_video on its own (SpecScroll).
VARIABLES
    tr_pc,         \* "idle" | "loop" | "done"
    tr_total,      \* transition_frames
    tr_height,     \* self.config.height
    tr_shots       \* per transition frame saved: eased, the offsets, the pastes

\* render_bubble followed by _crop_center for one bubble (SpecBubble).
VARIABLES
    bb_pc,         \* "idle" | "render" | "crop" | "done"
    bb_in,         \* x_pct, y_pct, the size of the canvas, (bw, bh)
    bb_box,        \* the bubble's box on the canvas: (left, top, right, bottom)
    bb_frame       \* the bubble's box in the coordinates of the cropped frame

\* Several calls of run_fidelity_workflow on one event loop (SpecCalls).
VARIABLES
    calls          \* per call: its fidelity_threshold, where it is, and what
                   \* its evaluator made of the score

inputs == <<panels, config, output_arg, asset>>
objv   == <<heap, refs>>
loopv  == <<panel_idx, bubble_idx, k, bubble_img, objv>>
framev == <<frame_idx, frame_paths, files, timeline>>
encv   == <<enc_calls, enc_proc, enc_stderr>>
outv   == <<out_ws, out_user, out_gen, output_path>>
logv   == <<resolve_log, errors>>
buildv == <<inputs, pc, loopv, framev, temp_dir, encv, outv, result, logv>>
geomv  == <<geom_pc, img_size, target_size, scaled_size, crop_box, cropped_size>>
concv  == <<builds, fs_dirs, fs_files, shared_font, write_log, rm_log, attr_log>>
routev == <<route_state, route>>
fidv   == <<wf_args, wf_pc, wf_state, wf_threshold, wf_response, blind_read,
            evaluations, loops, runs, failures>>
scrollv == <<tr_pc, tr_total, tr_height, tr_shots>>
bubblev == <<bb_pc, bb_in, bb_box, bb_frame>>
callv  == <<calls>>
extrav == <<scrollv, bubblev, callv>>
vars   == <<buildv, geomv, concv, routev, fidv, extrav>>
\* What the actions of one component leave alone.
others == <<geomv, concv, routev, fidv, extrav>>

NoResult == [status |-> "none"]

\* ----------------------------------------------------------- pure helpers
NumPanels == Len(panels)
CurPanel == panels[panel_idx + 1]

\* round(duration_ms / 1000 * fps), Python's round: half goes to even.
RoundHalfEven(n, d) ==
    LET q == n \div d
        r == n % d
    IN  IF 2 * r < d THEN q
        ELSE IF 2 * r > d THEN q + 1
        ELSE IF q % 2 = 0 THEN q ELSE q + 1

\* A frame count that rounds where the code truncates.
FrameCountRounded(ms) == RoundHalfEven(ms * config.fps, 1000)

\* int(duration_ms / 1000 * fps): truncation of a non-negative quotient.
FrameCount(ms) == (ms * config.fps) \div 1000

base_frames == FrameCount(config.base_duration_ms)
bubble_frames == FrameCount(config.bubble_duration_ms)
final_frames == FrameCount(config.final_pause_ms)
transition_frames == FrameCount(config.transition_duration_ms)

\* Content of a frame file: the phase it was produced in, the panel shown,
\* the bubble composited on it (0: none), the background the bubble got, and
\* for a transition the step t (the panel scrolled in is panel + 1); shown
\* is the set of bubbles drawn on the image, empty until render_bubble draws.
Frame(phase, p, b, bg, t) ==
    [phase |-> phase, panel |-> p, bubble |-> b, bg |-> bg, t |-> t,
     shown |-> {}]
NoFrame == Frame("none", 0, 0, "none", 0)
\* What a failed save may leave at its path.
PartialFile == Frame("partial", 0, 0, "none", 0)

\* The local names of the panel loop that hold an image (lines 336-337, 355,
\* 356, 365), none bound yet; 0 stands for no object.
NoRefs == [base_scaled |-> 0, final_base |-> 0, canvas |-> 0,
           img_with_bubble |-> 0, frame_with_bubble |-> 0]

\* A new image object with content c: resize, crop and copy all return one.
Alloc(h, c) == [heap |-> Append(h, c), ref |-> Len(h) + 1]

\* The file system of temp_dir after writing content c to frame number n.
Put(fs, n, c) == [m \in (DOMAIN fs) \cup {n} |-> IF m = n THEN c ELSE fs[m]]

\* An exception object: its type and what its message quotes.
Exc(etype, quotes) == [etype |-> etype, quotes |-> quotes]

\* A raise that leaves generate_video without running the finally clause.
RaiseNoFinally(site, e) ==
    /\ result' = [status |-> "raised", error |-> e]
    /\ errors' = Append(errors, [site |-> site, etype |-> e.etype, swallowed |-> FALSE])
    /\ pc' = "done"

\* raise: the exception leaves the try block, the finally clause runs next.
Raise(site, e) ==
    /\ result' = [status |-> "raised", error |-> e]
    /\ errors' = Append(errors, [site |-> site, etype |-> e.etype, swallowed |-> FALSE])
    /\ pc' = "finally"

\* logger.warning / logger.error in an except clause that does not re-raise.
Swallow(site, etype) ==
    errors' = Append(errors, [site |-> site, etype |-> etype, swallowed |-> TRUE])

\* ------------------------------------------------------- idle components
\* No image is being scaled.
GeomIdle ==
    /\ geom_pc = "idle"
    /\ img_size = <<0, 0>>
    /\ target_size = <<0, 0>>
    /\ scaled_size = <<0, 0>>
    /\ crop_box = <<0, 0, 0, 0>>
    /\ cropped_size = <<0, 0>>

\* No build has been called on the singleton.
ConcIdle ==
    /\ builds = <<>>
    /\ fs_dirs = {}
    /\ fs_files = {}
    /\ shared_font = "None"
    /\ write_log = {}
    /\ rm_log = {}
    /\ attr_log = {}

\* should_continue is not being called.
RouteIdle ==
    /\ route_state = <<>>
    /\ route = "none"

\* No fidelity workflow is running.
FidIdle ==
    /\ wf_args = <<>>
    /\ wf_pc = "idle"
    /\ wf_state = <<>>
    /\ wf_threshold = 0
    /\ wf_response = <<>>
    /\ blind_read = <<>>
    /\ evaluations = 0
    /\ loops = 0
    /\ runs = <<>>
    /\ failures = {}

\* No transition is being produced.
ScrollIdle ==
    /\ tr_pc = "idle"
    /\ tr_total = 0
    /\ tr_height = 0
    /\ tr_shots = <<>>

NoBox == <<0, 0, 0, 0>>

BubbleIdle ==
    /\ bb_pc = "idle"
    /\ bb_in = <<>>
    /\ bb_box = NoBox
    /\ bb_frame = NoBox

CallsIdle == calls = <<>>

ExtraIdle == ScrollIdle /\ BubbleIdle /\ CallsIdle

\* generate_video has not been called.
BuildIdle ==
    /\ panels = <<>>
    /\ config = [fps |-> 4, base_duration_ms |-> 375, bubble_duration_ms |-> 250,
                 final_pause_ms |-> 250, transition_duration_ms |-> 500]
    /\ output_arg = "None"
    /\ asset = "absent"
    /\ pc = "idle"
    /\ panel_idx = 0
    /\ bubble_idx = 0
    /\ k = 0
    /\ frame_idx = 0
    /\ frame_paths = <<>>
    /\ temp_dir = "none"
    /\ files = <<>>
    /\ timeline = <<>>
    /\ bubble_img = NoFrame
    /\ heap = <<>>
    /\ refs = NoRefs
    /\ output_path = "None"
    /\ enc_calls = 0
    /\ enc_proc = "none"
    /\ enc_stderr = 0
    /\ out_ws = "absent"
    /\ out_user = "absent"
    /\ out_gen = "absent"
    /\ result = NoResult
    /\ resolve_log = <<>>
    /\ errors = <<>>

\* ------------------------------------------------------------ one build
Init ==
    /\ GeomIdle /\ ConcIdle /\ RouteIdle /\ FidIdle /\ ExtraIdle
    /\ panels \in PanelLists
    /\ config \in Configs
    /\ output_arg \in OutputArgs
    /\ asset \in AssetStates
    /\ pc = "start"
    /\ panel_idx = 0
    /\ bubble_idx = 0
    /\ k = 0
    /\ frame_idx = 0
    /\ frame_paths = <<>>
    /\ temp_dir = "none"
    /\ files = <<>>
    /\ timeline = <<>>
    /\ bubble_img = NoFrame
    /\ heap = <<>>
    /\ refs = NoRefs
    /\ output_path = output_arg
    /\ enc_calls = 0
    /\ enc_proc = "none"
    /\ enc_stderr = 0
    /\ out_ws = "absent"
    /\ out_user = "absent"
    /\ out_gen = "absent"
    /\ result = NoResult
    /\ resolve_log = <<>>
    /\ errors = <<>>

\* tempfile.mkdtemp succeeds.
MkdtempOk ==
    /\ pc = "start"
    /\ temp_dir' = "present"
    /\ pc' = "panel"
    /\ UNCHANGED <<others, inputs, loopv, framev, encv, outv, result, logv>>

\* tempfile.mkdtemp raises: it is outside the try, no finally clause runs.
MkdtempFail ==
    /\ pc = "start"
    /\ result' = [status |-> "raised", error |-> Exc("OSError", <<>>)]
    /\ errors' = Append(errors, [site |-> "mkdtemp", etype |-> "OSError", swallowed |-> FALSE])
    /\ pc' = "done"
    /\ UNCHANGED <<others, inputs, loopv, framev, temp_dir, encv, outv, resolve_log>>

\* ------------------------------------------------ image resolution
\* Error messages that quote the reference of the panel after the failing one.
MainErrorsOffByOne(i) ==
    { Exc("FileNotFoundError", <<"local_path", i + 1>>),
      Exc("ValueError", <<"image_url", i + 1>>),
      Exc("LibraryError", <<>>) }

\* The exceptions the load of panel i's own image can raise (lines 306-333):
\* FileNotFoundError quoting the cache path (line 328), ValueError quoting
\* the first 100 characters of image_url (line 333), or whatever base64,
\* httpx or PIL raise (lines 310-315, 326, 331).  None carries panel_number.
MainErrors(i) ==
    { Exc("FileNotFoundError", <<"local_path", i>>),
      Exc("ValueError", <<"image_url", i>>),
      Exc("LibraryError", <<>>) }

\* How the load of the next panel's image can fail (lines 386-407): the
\* file is missing and the loop takes `continue` without logging (lines
\* 403, 407), or the load raises and the except clause of line 444 logs it.
LookaheadErrors == {"NotFound", "LibraryError"}

LogResolve(i, site, ok) ==
    resolve_log' = Append(resolve_log,
        [panel |-> i, site |-> site, ok |-> ok, at |-> frame_idx])

\* for panel_idx, panel in enumerate(panels): the panel's image loads.
ResolveOk ==
    /\ pc = "panel"
    /\ panel_idx < NumPanels
    /\ LogResolve(panel_idx + 1, "main", TRUE)
    /\ LET scaled  == Alloc(<<>>, Frame("base", panel_idx + 1, 0, "none", 0))
           cropped == Alloc(scaled.heap, scaled.heap[scaled.ref])
       IN  /\ heap' = cropped.heap
           /\ refs' = [NoRefs EXCEPT !.base_scaled = scaled.ref,
                                     !.final_base = cropped.ref]
    /\ k' = 0
    /\ pc' = "base"
    /\ UNCHANGED <<others, inputs, panel_idx, bubble_idx, bubble_img, framev, temp_dir,
                   encv, outv, result, errors>>

\* A failed load of the panel's own image handled like a failed load of the
\* next panel's image: logged, and the loop goes on with the next panel.
ResolveFailSkipped ==
    /\ pc = "panel"
    /\ panel_idx < NumPanels
    /\ LogResolve(panel_idx + 1, "main", FALSE)
    /\ Swallow("resolve", "LibraryError")
    /\ panel_idx' = panel_idx + 1
    /\ UNCHANGED <<others, inputs, pc, bubble_idx, k, bubble_img, objv, framev, temp_dir,
                   encv, outv, result>>

\* The panel's image does not load: the exception leaves the loop.
ResolveFail ==
    /\ pc = "panel"
    /\ panel_idx < NumPanels
    /\ \E e \in MainErrors(panel_idx + 1) : Raise("resolve", e)
    /\ LogResolve(panel_idx + 1, "main", FALSE)
    /\ UNCHANGED <<others, inputs, loopv, framev, temp_dir, encv, outv>>

\* ------------------------------------------------------ frame writing
\* frame.save(frame_path); frame_paths.append(frame_path); frame_idx += 1
WriteFrame(c) ==
    /\ files' = Put(files, frame_idx, c)
    /\ timeline' = Append(timeline, c)
    /\ frame_paths' = Append(frame_paths, frame_idx)
    /\ frame_idx' = frame_idx + 1

\* save raises inside the transition: nothing is appended and frame_idx
\* stays; the path may hold a partial file, which the next save to the same
\* frame number overwrites.
FailedWrite ==
    /\ \E left \in BOOLEAN :
          files' = IF left THEN Put(files, frame_idx, PartialFile) ELSE files
    /\ UNCHANGED <<frame_paths, frame_idx, timeline>>

\* save raises in a panel's own phases: the exception ends the build, and
\* nothing reads temp_dir again before the teardown.
AbortedWrite ==
    /\ Raise("write_frame", Exc("OSError", <<>>))
    /\ UNCHANGED framev

\* 1. Base image without bubbles.
WriteBaseFrame ==
    /\ pc = "base"
    /\ k < base_frames
    /\ WriteFrame(heap[refs.final_base])
    /\ k' = k + 1
    /\ UNCHANGED <<others, inputs, pc, panel_idx, bubble_idx, bubble_img, objv, temp_dir,
                   encv, outv, result, logv>>

WriteBaseFrameFail ==
    /\ pc = "base"
    /\ k < base_frames
    /\ AbortedWrite
    /\ UNCHANGED <<others, inputs, loopv, temp_dir, encv, outv, resolve_log>>

EndBase ==
    /\ pc = "base"
    /\ k = base_frames
    /\ bubble_idx' = 0
    /\ pc' = "bubble"
    /\ UNCHANGED <<others, inputs, panel_idx, k, bubble_img, objv, framev, temp_dir, encv,
                   outv, result, logv>>

\* What render_bubble draws (lines 124-232): bubble b on background bg over
\* whatever the image already shows.
DrawBubble(c, b, bg) ==
    [c EXCEPT !.phase = "bubble", !.bubble = b, !.bg = bg,
              !.shown = c.shown \cup {b}]

\* render_bubble drawing on the object it was given and returning it.
render_bubble_in_place(h, img, b, bg) ==
    [heap |-> [h EXCEPT ![img] = DrawBubble(h[img], b, bg)], ref |-> img]

\* render_bubble (lines 100-234): img = img.copy() (line 123), the bubble is
\* drawn on the copy and the copy is returned (line 234).
render_bubble(h, img, b, bg) ==
    LET copy == Alloc(h, h[img])
    IN  [heap |-> [copy.heap EXCEPT ![copy.ref] = DrawBubble(copy.heap[copy.ref], b, bg)],
         ref |-> copy.ref]

\* The image a bubble is drawn on, were it the image with the bubbles drawn
\* before it (as generate_frame composes its bubbles, lines 261-269).
BubbleCanvasCumulative ==
    IF bubble_idx = 0 THEN Frame("base", panel_idx + 1, 0, "none", 0)
    ELSE bubble_img

\* base_scaled.copy() (line 356): each bubble is drawn on a fresh copy of the
\* panel's scaled image.
BubbleCanvas == heap[refs.base_scaled]

\* One iteration of `for bubble in panel.bubbles` up to the crop (lines
\* 355-365): the names canvas, img_with_bubble and frame_with_bubble are
\* bound to new objects, those of the previous iteration are released.
RenderBubble(b, bg) ==
    LET kept     == SubSeq(heap, 1, refs.final_base)
        canvas   == Alloc(kept, BubbleCanvas)
        rendered == render_bubble(canvas.heap, canvas.ref, b, bg)
        cropped  == Alloc(rendered.heap, rendered.heap[rendered.ref])
    IN  /\ heap' = cropped.heap
        /\ refs' = [refs EXCEPT !.canvas = canvas.ref,
                                !.img_with_bubble = rendered.ref,
                                !.frame_with_bubble = cropped.ref]
        /\ bubble_img' = cropped.heap[cropped.ref]

\* 2. Each bubble sequentially: render_bubble(base_scaled.copy(), ...) with
\* the custom bubble asset, then _crop_center.
RenderBubbleAsset ==
    /\ pc = "bubble"
    /\ bubble_idx < CurPanel.bubbles
    /\ asset = "ok"
    /\ RenderBubble(bubble_idx + 1, "asset")
    /\ k' = 0
    /\ pc' = "bubble_frames"
    /\ UNCHANGED <<others, inputs, panel_idx, bubble_idx, framev, temp_dir, encv, outv,
                   result, logv>>

\* render_bubble without a usable asset: the rounded rectangle is drawn.  A
\* present asset that fails to load is logged (logger.error) and dropped.
RenderBubbleFallback ==
    /\ pc = "bubble"
    /\ bubble_idx < CurPanel.bubbles
    /\ asset # "ok"
    /\ RenderBubble(bubble_idx + 1, "rounded")
    /\ IF asset = "corrupt"
       THEN Swallow("bubble_asset", "LibraryError")
       ELSE UNCHANGED errors
    /\ k' = 0
    /\ pc' = "bubble_frames"
    /\ UNCHANGED <<others, inputs, panel_idx, bubble_idx, framev, temp_dir, encv, outv,
                   result, resolve_log>>

WriteBubbleFrame ==
    /\ pc = "bubble_frames"
    /\ k < bubble_frames
    /\ WriteFrame(bubble_img)
    /\ k' = k + 1
    /\ UNCHANGED <<others, inputs, pc, panel_idx, bubble_idx, bubble_img, objv, temp_dir,
                   encv, outv, result, logv>>

WriteBubbleFrameFail ==
    /\ pc = "bubble_frames"
    /\ k < bubble_frames
    /\ AbortedWrite
    /\ UNCHANGED <<others, inputs, loopv, temp_dir, encv, outv, resolve_log>>

EndBubble ==
    /\ pc = "bubble_frames"
    /\ k = bubble_frames
    /\ bubble_idx' = bubble_idx + 1
    /\ pc' = "bubble"
    /\ UNCHANGED <<others, inputs, panel_idx, k, bubble_img, objv, framev, temp_dir, encv,
                   outv, result, logv>>

EndBubbles ==
    /\ pc = "bubble"
    /\ bubble_idx = CurPanel.bubbles
    /\ k' = 0
    /\ pc' = "final"
    /\ UNCHANGED <<others, inputs, panel_idx, bubble_idx, bubble_img, objv, framev, temp_dir,
                   encv, outv, result, logv>>

\* 3. Final pause (image only).
WriteFinalFrame ==
    /\ pc = "final"
    /\ k < final_frames
    /\ WriteFrame([heap[refs.final_base] EXCEPT !.phase = "final"])
    /\ k' = k + 1
    /\ UNCHANGED <<others, inputs, pc, panel_idx, bubble_idx, bubble_img, objv, temp_dir,
                   encv, outv, result, logv>>

WriteFinalFrameFail ==
    /\ pc = "final"
    /\ k < final_frames
    /\ AbortedWrite
    /\ UNCHANGED <<others, inputs, loopv, temp_dir, encv, outv, resolve_log>>

\* A final pause followed by a transition whether or not a panel follows.
EndFinalAlwaysTransition ==
    /\ pc = "final"
    /\ k = final_frames
    /\ pc' = "lookahead"
    /\ UNCHANGED <<others, inputs, loopv, framev, temp_dir, encv, outv, result, logv>>

\* if panel_idx < len(panels) - 1: the transition; else the next iteration.
EndFinal ==
    /\ pc = "final"
    /\ k = final_frames
    /\ IF panel_idx < NumPanels - 1
       THEN pc' = "lookahead" /\ UNCHANGED panel_idx
       ELSE pc' = "panel" /\ panel_idx' = panel_idx + 1
    /\ UNCHANGED <<others, inputs, bubble_idx, k, bubble_img, objv, framev, temp_dir, encv,
                   outv, result, logv>>

\* ------------------------------------------------------- transition
\* 4. Scroll transition: the next panel's image loads (lines 386-411).
LookaheadOk ==
    /\ pc = "lookahead"
    /\ LogResolve(panel_idx + 2, "next", TRUE)
    /\ k' = 0
    /\ pc' = "transition"
    /\ UNCHANGED <<others, inputs, panel_idx, bubble_idx, bubble_img, objv, framev, temp_dir,
                   encv, outv, result, errors>>

\* A failed load of the next panel's image that is tried again.
LookaheadFailRetried ==
    /\ pc = "lookahead"
    /\ LogResolve(panel_idx + 2, "next", FALSE)
    /\ \E etype \in LookaheadErrors : Swallow("lookahead", etype)
    /\ UNCHANGED <<others, inputs, pc, loopv, framev, temp_dir, encv, outv, result>>

\* The next panel's image does not load.  A missing file takes `continue`
\* (lines 403, 407: nothing is logged); an exception is caught by the except
\* clause of line 444 and logged as a warning.  Either way the loop goes on
\* with the next panel.
LookaheadFail ==
    /\ pc = "lookahead"
    /\ LogResolve(panel_idx + 2, "next", FALSE)
    /\ \E etype \in LookaheadErrors : Swallow("lookahead", etype)
    /\ panel_idx' = panel_idx + 1
    /\ pc' = "panel"
    /\ UNCHANGED <<others, inputs, bubble_idx, k, bubble_img, objv, framev, temp_dir, encv,
                   outv, result>>

\* for t in range(transition_frames): one transition frame is saved.
WriteTransitionFrame ==
    /\ pc = "transition"
    /\ k < transition_frames
    /\ WriteFrame(Frame("transition", panel_idx + 1, 0, "none", k))
    /\ k' = k + 1
    /\ UNCHANGED <<others, inputs, pc, panel_idx, bubble_idx, bubble_img, objv, temp_dir,
                   encv, outv, result, logv>>

\* Saving a transition frame raises: caught at line 444, the rest of the
\* transition is dropped and the loop goes on with the next panel.
WriteTransitionFrameFail ==
    /\ pc = "transition"
    /\ k < transition_frames
    /\ FailedWrite
    /\ Swallow("transition_frame", "OSError")
    /\ panel_idx' = panel_idx + 1
    /\ pc' = "panel"
    /\ UNCHANGED <<others, inputs, bubble_idx, k, bubble_img, objv, temp_dir, encv, outv,
                   result, resolve_log>>

EndTransition ==
    /\ pc = "transition"
    /\ k = transition_frames
    /\ panel_idx' = panel_idx + 1
    /\ pc' = "panel"
    /\ UNCHANGED <<others, inputs, bubble_idx, k, bubble_img, objv, framev, temp_dir, encv,
                   outv, result, logv>>

\* ---------------------------------------------------------- encoding
\* The encoder command prepared whatever the loop produced.
VerifyFramesSkipped ==
    /\ pc = "panel"
    /\ panel_idx = NumPanels
    /\ output_path' = IF output_path = "None" THEN "ws" ELSE output_path
    /\ pc' = "encode"
    /\ UNCHANGED <<others, inputs, loopv, framev, temp_dir, encv, out_ws, out_user,
                   out_gen, result, logv>>

\* After the loop: "Verify frames exist" (lines 451-457), then the default
\* output path inside temp_dir (lines 462-463).
VerifyFrames ==
    /\ pc = "panel"
    /\ panel_idx = NumPanels
    /\ IF Len(frame_paths) = 0 \/ 0 \notin DOMAIN files
       THEN /\ Raise("verify", Exc("RuntimeError", <<>>))
            /\ UNCHANGED output_path
       ELSE /\ output_path' = IF output_path = "None" THEN "ws" ELSE output_path
            /\ pc' = "encode"
            /\ UNCHANGED <<result, errors>>
    /\ UNCHANGED <<others, inputs, loopv, framev, temp_dir, encv, out_ws, out_user,
                   out_gen, resolve_log>>

\* result.stderr[-1000:] (line 493): the length of the slice.
StderrLimit == 1000

\* len(result.stderr) of a failed run: empty, short, exactly the slice
\* length, one more, and much longer.
StderrLengths == {0, 1, StderrLimit, StderrLimit + 1, 3 * StderrLimit}

\* s[:n] of a string of length len, as the positions (1-based, inclusive) of
\* the characters it keeps.
FirstChars(len, n) == [from |-> 1, to |-> IF len > n THEN n ELSE len]

\* s[-n:] of a string of length len, n > 0, as the positions (1-based,
\* inclusive) of the characters it keeps; from = to + 1 for the empty string.
LastChars(len, n) == [from |-> IF len > n THEN len - n + 1 ELSE 1, to |-> len]

\* What a message quotes of a stream: the stream and the positions quoted.
Quote(stream, slice) == <<stream, slice.from, slice.to>>

\* The file ffmpeg writes: output_path, inside temp_dir or the caller's.
EncoderWrites(state) ==
    /\ out_ws' = IF output_path = "ws" THEN state ELSE out_ws
    /\ out_user' = IF output_path = "user" THEN state ELSE out_user
    /\ UNCHANGED <<out_gen, output_path>>

\* subprocess.run: no ffmpeg binary; FileNotFoundError, no process spawned.
EncoderMissing ==
    /\ pc = "encode"
    /\ enc_calls' = enc_calls + 1
    /\ Raise("encoder", Exc("FileNotFoundError", <<"ffmpeg">>))
    /\ UNCHANGED <<others, inputs, loopv, framev, temp_dir, enc_proc, enc_stderr,
                   outv, resolve_log>>

\* subprocess.run spawns ffmpeg and waits for it.
EncoderStart ==
    /\ pc = "encode"
    /\ enc_calls' = enc_calls + 1
    /\ enc_proc' = "running"
    /\ pc' = "encoding"
    /\ UNCHANGED <<others, inputs, loopv, framev, temp_dir, enc_stderr, outv,
                   result, logv>>

\* return output_path (line 507); the finally clause runs next.
Return(path) ==
    /\ result' = [status |-> "returned", path |-> path]
    /\ pc' = "finally"

\* ffmpeg exits 0, its output file is complete.  An output inside temp_dir
\* is copied out next (line 498), any other path is returned as it is.
EncoderExit0 ==
    /\ pc = "encoding"
    /\ enc_proc' = "exit0"
    /\ EncoderWrites("complete")
    /\ IF output_path = "ws"
       THEN pc' = "copy" /\ UNCHANGED result
       ELSE Return(output_path)
    /\ UNCHANGED <<others, inputs, loopv, framev, temp_dir, enc_calls,
                   enc_stderr, logv>>

\* A non-zero exit that is logged and then treated like a zero exit.
EncoderNonZeroIgnored ==
    /\ pc = "encoding"
    /\ enc_proc' = "nonzero"
    /\ \E state \in {"absent", "partial"} : EncoderWrites(state)
    /\ Swallow("encoder", "RuntimeError")
    /\ IF output_path = "ws"
       THEN pc' = "copy" /\ UNCHANGED result
       ELSE Return(output_path)
    /\ UNCHANGED <<others, inputs, loopv, framev, temp_dir, enc_calls,
                   enc_stderr, resolve_log>>

\* A non-zero exit after which ffmpeg is run again.
EncoderNonZeroRetried ==
    /\ pc = "encoding"
    /\ enc_proc' = "nonzero"
    /\ \E state \in {"absent", "partial"} : EncoderWrites(state)
    /\ Swallow("encoder", "RuntimeError")
    /\ pc' = "encode"
    /\ UNCHANGED <<others, inputs, loopv, framev, temp_dir, enc_calls,
                   enc_stderr, result, resolve_log>>

\* ffmpeg exits non-zero (line 489): RuntimeError whose message is
\* f"FFmpeg failed: {result.stderr[-1000:]}" (line 493).  ffmpeg may already
\* have created its output file.
EncoderNonZero ==
    /\ pc = "encoding"
    /\ enc_proc' = "nonzero"
    /\ \E state \in {"absent", "partial"} : EncoderWrites(state)
    /\ \E len \in StderrLengths :
          /\ enc_stderr' = len
          /\ Raise("encoder", Exc("RuntimeError", Quote("stderr", LastChars(len, StderrLimit))))
    /\ UNCHANGED <<others, inputs, loopv, framev, temp_dir, enc_calls, resolve_log>>

\* A timeout reported like a failed run of ffmpeg.
EncoderTimeoutAsFailure ==
    /\ pc = "encoding"
    /\ enc_proc' = "killed"
    /\ \E state \in {"absent", "partial"} : EncoderWrites(state)
    /\ Raise("encoder", Exc("RuntimeError", Quote("stderr", LastChars(0, StderrLimit))))
    /\ UNCHANGED <<others, inputs, loopv, framev, temp_dir, enc_calls,
                   enc_stderr, resolve_log>>

\* timeout=300 expires: subprocess.run kills the child, waits for it and
\* raises TimeoutExpired.
EncoderTimeout ==
    /\ pc = "encoding"
    /\ enc_proc' = "killed"
    /\ \E state \in {"absent", "partial"} : EncoderWrites(state)
    /\ Raise("encoder", Exc("TimeoutExpired", <<"cmd">>))
    /\ UNCHANGED <<others, inputs, loopv, framev, temp_dir, enc_calls,
                   enc_stderr, resolve_log>>

\* The path inside temp_dir returned without copying the file out.
CopyOutSkipped ==
    /\ pc = "copy"
    /\ Return("ws")
    /\ UNCHANGED <<others, inputs, loopv, framev, temp_dir, encv, outv, logv>>

\* NamedTemporaryFile(delete=False) and shutil.copy succeed (lines 499-505).
CopyOut ==
    /\ pc = "copy"
    /\ out_gen' = out_ws
    /\ output_path' = "gen"
    /\ Return("gen")
    /\ UNCHANGED <<others, inputs, loopv, framev, temp_dir, encv, out_ws, out_user, logv>>

\* NamedTemporaryFile raises (no file), or shutil.copy raises (the file
\* created by NamedTemporaryFile stays, empty or partly written).
CopyOutFail ==
    /\ pc = "copy"
    /\ \E state \in {"absent", "partial"} : out_gen' = state
    /\ Raise("copy", Exc("OSError", <<>>))
    /\ UNCHANGED <<others, inputs, loopv, framev, temp_dir, encv, out_ws, out_user,
                   output_path, resolve_log>>

\* ----------------------------------------------------------- teardown
\* finally: shutil.rmtree(temp_dir) removes the directory and all in it.
RmtreeOk ==
    /\ pc = "finally"
    /\ temp_dir' = "removed"
    /\ files' = <<>>
    /\ out_ws' = "absent"
    /\ pc' = "done"
    /\ UNCHANGED <<others, inputs, loopv, frame_idx, frame_paths, timeline, encv,
                   out_user, out_gen, output_path, result, logv>>

\* shutil.rmtree raises and its exception replaces the pending return or
\* exception of the try block.
RmtreeFailRaised ==
    /\ pc = "finally"
    /\ result' = [status |-> "raised", error |-> Exc("OSError", <<"temp_dir">>)]
    /\ errors' = Append(errors, [site |-> "rmtree", etype |-> "OSError", swallowed |-> FALSE])
    /\ pc' = "done"
    /\ UNCHANGED <<others, inputs, loopv, framev, temp_dir, encv, outv, resolve_log>>

\* shutil.rmtree raises: logged as a warning (line 514), the pending return
\* or exception of the try block goes on to the caller.
RmtreeFail ==
    /\ pc = "finally"
    /\ Swallow("rmtree", "OSError")
    /\ pc' = "done"
    /\ UNCHANGED <<others, inputs, loopv, framev, temp_dir, encv, outv, result,
                   resolve_log>>

Next ==
    \/ MkdtempOk
    \/ MkdtempFail
    \/ ResolveOk
    \/ ResolveFail
    \/ WriteBaseFrame
    \/ WriteBaseFrameFail
    \/ EndBase
    \/ RenderBubbleAsset
    \/ RenderBubbleFallback
    \/ WriteBubbleFrame
    \/ WriteBubbleFrameFail
    \/ EndBubble
    \/ EndBubbles
    \/ WriteFinalFrame
    \/ WriteFinalFrameFail
    \/ EndFinal
    \/ LookaheadOk
    \/ LookaheadFail
    \/ WriteTransitionFrame
    \/ WriteTransitionFrameFail
    \/ EndTransition
    \/ VerifyFrames
    \/ EncoderMissing
    \/ EncoderStart
    \/ EncoderExit0
    \/ EncoderNonZero
    \/ EncoderTimeout
    \/ CopyOut
    \/ CopyOutFail
    \/ RmtreeOk
    \/ RmtreeFail

Spec == Init /\ [][Next]_vars
\* ====================================================================
\* Properties
\* ====================================================================
Returned == result.status = "returned"
Raised == result.status = "raised"
Done == pc = "done"

RECURSIVE SumBubbles(_)
SumBubbles(n) == IF n = 0 THEN 0 ELSE panels[n].bubbles + SumBubbles(n - 1)
TotalBubbles == SumBubbles(NumPanels)

\* Number of frames of the timeline produced in a given phase.
PhaseFrames(ph) == Cardinality({n \in DOMAIN timeline : timeline[n].phase = ph})

ErrorAt(sites) == \E j \in DOMAIN errors : errors[j].site \in sites

\* The frame counts written out from the configuration alone.
Truncated(ms) == (ms * config.fps) \div 1000
Rounded(ms) == RoundHalfEven(ms * config.fps, 1000)

\* C1 as stated: a successful build of P panels with B bubbles wrote
\* P*(round(base)+round(final)) + B*round(bubble) + (P-1)*round(transition)
\* frames, round being round(duration_ms/1000*fps).
C1_RoundedClosedForm ==
    Returned =>
        Len(frame_paths) =
            NumPanels * (Rounded(config.base_duration_ms)
                         + Rounded(config.final_pause_ms))
            + TotalBubbles * Rounded(config.bubble_duration_ms)
            + (NumPanels - 1) * Rounded(config.transition_duration_ms)

\* C1 amended: a successful build of P panels with B bubbles wrote
\* P*(int(base)+int(final)) + B*int(bubble) + X frames, int being the
\* truncation int(duration_ms/1000*fps) and X the number of transition
\* frames: X = (P-1)*int(transition) when no transition was skipped or cut
\* short by an error, and X is smaller otherwise (when int(transition) > 0).
C1_TruncatedClosedForm ==
    Returned =>
        LET X == PhaseFrames("transition")
            full == (NumPanels - 1) * Truncated(config.transition_duration_ms)
        IN  /\ Len(frame_paths) =
                  NumPanels * (Truncated(config.base_duration_ms)
                               + Truncated(config.final_pause_ms))
                  + TotalBubbles * Truncated(config.bubble_duration_ms)
                  + X
            /\ X <= full
            /\ X < full => ErrorAt({"lookahead", "transition_frame"})
            /\ ( /\ ErrorAt({"lookahead", "transition_frame"})
                 /\ Truncated(config.transition_duration_ms) > 0 ) => X < full

\* A finished successful build of several panels with bubbles, a duration
\* that is not a whole number of frames, and all transitions complete.
C1_Witness ==
    /\ Done /\ Returned
    /\ NumPanels >= 2
    /\ TotalBubbles >= 1
    /\ Truncated(config.base_duration_ms) # Rounded(config.base_duration_ms)
    /\ PhaseFrames("transition") = 2 * (NumPanels - 1)
NoOutputFile == out_ws = "absent" /\ out_user = "absent" /\ out_gen = "absent"

\* C2 as stated: once any load of a panel image has failed (the panel's own
\* load or the load of the next panel for a transition), no further frame is
\* written, the encoder is not invoked, no output file is produced and the
\* build does not succeed.
C2_FailFastAnyLoad ==
    \A j \in DOMAIN resolve_log :
        ~resolve_log[j].ok =>
            /\ frame_idx = resolve_log[j].at
            /\ Len(timeline) = resolve_log[j].at
            /\ enc_calls = 0
            /\ NoOutputFile
            /\ ~Returned
            /\ Done => Raised

\* C2 amended: once the load of a panel's own image has failed, the build
\* is over: no further image is loaded, no further frame is written, the
\* encoder is not invoked, no output file is produced and generate_video
\* raises.  (A failed load of the next panel's image only drops that
\* transition.)
C2_FailFastOwnLoad ==
    \A j \in DOMAIN resolve_log :
        (~resolve_log[j].ok /\ resolve_log[j].site = "main") =>
            /\ j = Len(resolve_log)
            /\ frame_idx = resolve_log[j].at
            /\ Len(timeline) = resolve_log[j].at
            /\ enc_calls = 0
            /\ NoOutputFile
            /\ Raised
            /\ pc \in {"finally", "done"}

\* The own image of a later panel failed to load after frames were written.
C2_Witness ==
    /\ Done
    /\ resolve_log # <<>>
    /\ LET e == resolve_log[Len(resolve_log)]
       IN  ~e.ok /\ e.site = "main" /\ e.panel >= 2 /\ e.at > 0

RmtreeErrors == Cardinality({j \in DOMAIN errors : errors[j].site = "rmtree"})

\* C3 as stated: whenever generate_video has returned or raised, the
\* temporary workspace and every file in it are gone.
C3_WorkspaceGone ==
    Done => temp_dir # "present" /\ DOMAIN files = {} /\ out_ws = "absent"

\* C3 amended: on every exit path of a build whose workspace was created,
\* shutil.rmtree was called on it exactly once; the workspace and its files
\* are gone unless that call itself failed, and then the failure was logged
\* and swallowed as the last thing before the exit.
C3_WorkspaceRemovalAttempted ==
    /\ pc \notin {"start", "done"} => temp_dir = "present" /\ RmtreeErrors = 0
    /\ (Done /\ temp_dir = "none") =>
           (Raised /\ result.error.etype = "OSError" /\ DOMAIN files = {})
    /\ (Done /\ temp_dir # "none") =>
           IF RmtreeErrors = 0
           THEN temp_dir = "removed" /\ DOMAIN files = {} /\ out_ws = "absent"
           ELSE /\ RmtreeErrors = 1
                /\ temp_dir = "present"
                /\ errors[Len(errors)].site = "rmtree"
                /\ errors[Len(errors)].swallowed

\* A build that wrote frames, failed in the encoder and removed its workspace.
C3_Witness ==
    /\ Done /\ Raised
    /\ temp_dir = "removed"
    /\ Len(timeline) > 0
    /\ enc_calls = 1
\* C4: after a failed build neither the caller's output_path nor a generated
\* destination file exists outside the workspace.
C4_NoOutputAfterFailure ==
    (Done /\ Raised) => (out_user = "absent" /\ out_gen = "absent")

\* The build ended because the load of a panel's own image failed.
ResolutionFailed ==
    /\ Raised
    /\ resolve_log # <<>>
    /\ ~resolve_log[Len(resolve_log)].ok
    /\ resolve_log[Len(resolve_log)].site = "main"
FailedPanel == resolve_log[Len(resolve_log)].panel

\* C5 as stated: the error of a failed resolution carries the panel_number
\* of the offending panel.
C5_ErrorNamesPanelNumber ==
    ResolutionFailed =>
        /\ "panel_number" \in DOMAIN result.error
        /\ result.error.panel_number = panels[FailedPanel].panel_number

\* C5 amended: the error of a failed resolution is the exception of the
\* resolver branch that failed: FileNotFoundError quoting the cache path,
\* ValueError quoting (a prefix of) image_url, or the library's own error.
\* It names the root cause and, where it quotes a reference, the reference
\* of the panel that was being processed; it carries no panel_number.
C5_ErrorNamesReference ==
    ResolutionFailed =>
        /\ FailedPanel = panel_idx + 1
        /\ "panel_number" \notin DOMAIN result.error
        /\ \/ /\ result.error.etype = "FileNotFoundError"
              /\ result.error.quotes = <<"local_path", FailedPanel>>
           \/ /\ result.error.etype = "ValueError"
              /\ result.error.quotes = <<"image_url", FailedPanel>>
           \/ /\ result.error.etype = "LibraryError"
              /\ result.error.quotes = <<>>
        /\ errors[Len(errors)].site \in {"resolve", "rmtree"}

\* Panel 2 of a 2-panel job has a cache reference whose file is missing.
C5_Witness ==
    /\ Done
    /\ NumPanels = 2
    /\ ResolutionFailed
    /\ FailedPanel = 2
    /\ result.error.etype = "FileNotFoundError"
\* The places where the code catches an error and goes on.
DegradedSites == {"lookahead", "transition_frame", "bubble_asset", "rmtree"}

FileAt(path) ==
    CASE path = "ws" -> out_ws
      [] path = "user" -> out_user
      [] path = "gen" -> out_gen
      [] OTHER -> "absent"

\* C7: the path a successful build returns lies outside the workspace and
\* names a complete file, also after the teardown; an output that ffmpeg
\* wrote inside the workspace was copied out while the workspace existed.
C7_ArtifactSurvivesCleanup ==
    /\ Returned =>
          /\ result.path \in {"user", "gen"}
          /\ FileAt(result.path) = "complete"
          /\ (output_arg = "None") <=> (result.path = "gen")
    /\ (out_gen # "absent" /\ ~Done) => temp_dir = "present"

\* A build without output_path argument that returned and removed its
\* workspace.
C7_Witness ==
    /\ Done /\ Returned
    /\ output_arg = "None"
    /\ temp_dir = "removed"
    /\ out_gen = "complete"

\* C8: the encoder is invoked at most once per build, exactly once by a
\* successful build, not at all by a build that fails before encoding, and
\* only after the loop over the panels has ended: no frame is written after
\* the invocation.
C8_EncoderInvokedOnce ==
    /\ [](/\ enc_calls <= 1
          /\ Returned => enc_calls = 1
          /\ enc_calls = 1 =>
                /\ panel_idx = NumPanels
                /\ pc \in {"encoding", "copy", "finally", "done"}
                /\ Len(timeline) >= 1
          /\ (Raised /\ ~ErrorAt({"encoder", "copy"})) => enc_calls = 0)
    /\ [][enc_calls >= 1 =>
            (timeline' = timeline /\ frame_idx' = frame_idx
             /\ frame_paths' = frame_paths)]_vars

\* A successful build of several panels.
C8_Witness ==
    /\ Done /\ Returned
    /\ NumPanels >= 2
    /\ enc_calls = 1

\* C9 as stated: after a failed attempt to load a panel's image no further
\* attempt is made to load the image of that panel, and the encoder is not
\* invoked again after a failure.
C9_NoSecondAttempt ==
    /\ \A i, j \in DOMAIN resolve_log :
          (i < j /\ ~resolve_log[i].ok) =>
              resolve_log[j].panel # resolve_log[i].panel
    /\ enc_calls <= 1

\* C9 amended: a failed load of a panel's own image is the last load of the
\* build; a failed load of the next panel's image for a transition is
\* followed by exactly one more attempt on that image, the panel's own load,
\* so no image is loaded more than twice; the encoder is invoked at most
\* once, and a failed or timed-out run ends the build.
C9_OneMoreAttemptAfterLookahead ==
    /\ \A j \in DOMAIN resolve_log :
          (~resolve_log[j].ok /\ resolve_log[j].site = "main") =>
              j = Len(resolve_log)
    /\ \A j, m \in DOMAIN resolve_log :
          ( /\ ~resolve_log[j].ok
            /\ resolve_log[j].site = "next"
            /\ m > j
            /\ resolve_log[m].panel = resolve_log[j].panel ) =>
              (m = j + 1 /\ resolve_log[m].site = "main")
    /\ \A q \in 1..NumPanels :
          Cardinality({j \in DOMAIN resolve_log : resolve_log[j].panel = q}) <= 2
    /\ enc_calls <= 1
    /\ enc_proc \in {"nonzero", "killed"} => pc \in {"finally", "done"}

\* A build that returned a path after the image of a panel failed to load
\* for the transition and loaded as the panel's own image.
C9_Witness ==
    /\ Done /\ Returned
    /\ \E j \in DOMAIN resolve_log :
          /\ ~resolve_log[j].ok
          /\ j + 1 \in DOMAIN resolve_log
          /\ resolve_log[j + 1].panel = resolve_log[j].panel
          /\ resolve_log[j + 1].ok

\* C10: when the encoder exceeds its timeout the process is killed,
\* generate_video raises TimeoutExpired (a non-zero exit raises RuntimeError
\* instead), returns no path, and the workspace teardown runs.
C10_TimeoutKillsAndRaises ==
    /\ enc_proc = "killed" =>
          /\ Raised
          /\ result.error.etype = "TimeoutExpired"
          /\ pc \in {"finally", "done"}
          /\ out_gen = "absent"
    /\ enc_proc = "nonzero" => (Raised /\ result.error.etype = "RuntimeError")
    /\ (Raised /\ result.error.etype = "TimeoutExpired") => enc_proc = "killed"
    /\ (Done /\ enc_proc = "killed") =>
          (temp_dir = "removed" \/ RmtreeErrors = 1)

\* A build whose encoder timed out and whose workspace was removed.
C10_Witness ==
    /\ Done
    /\ enc_proc = "killed"
    /\ temp_dir = "removed"

\* C11: a non-zero exit of the encoder is always fatal: generate_video
\* raises RuntimeError, returns no path and copies no artifact out of the
\* workspace; the message quotes a suffix of the encoder's stderr, the last
\* min(len(stderr), 1000) characters of it (all of it only when it is no
\* longer than that).
C11_NonZeroExitFatalWithTail ==
    enc_proc = "nonzero" =>
        /\ Raised
        /\ pc \in {"finally", "done"}
        /\ out_gen = "absent"
        /\ output_path # "gen"
        /\ result.error.etype = "RuntimeError"
        /\ LET q == result.error.quotes
               n == q[3] - q[2] + 1
           IN  /\ q[1] = "stderr"
               /\ q[3] = enc_stderr
               /\ n = IF enc_stderr < StderrLimit THEN enc_stderr ELSE StderrLimit
               /\ q[2] >= 1

\* A finished build whose encoder failed with 3000 characters on stderr: the
\* message quotes characters 2001..3000.
C11_Witness ==
    /\ Done
    /\ enc_proc = "nonzero"
    /\ enc_stderr = 3 * StderrLimit
    /\ result.error.quotes = <<"stderr", 2 * StderrLimit + 1, 3 * StderrLimit>>

\* ------------------------------------------------- the expected timeline
\* The frames a build emits for its input when every load and save succeeds,
\* written out from panels, VideoConfig and the installed bubble asset.
Repeated(c, n) == [i \in 1..n |-> c]

ExpectedBubbleFrame(p, b) ==
    [phase |-> "bubble", panel |-> p, bubble |-> b,
     bg |-> IF asset = "ok" THEN "asset" ELSE "rounded", t |-> 0, shown |-> {b}]

RECURSIVE ExpectedBubbles(_, _)
ExpectedBubbles(p, b) ==
    IF b = 0 THEN <<>>
    ELSE ExpectedBubbles(p, b - 1) \o
         Repeated(ExpectedBubbleFrame(p, b), Truncated(config.bubble_duration_ms))

ExpectedTransition(p) ==
    IF p < NumPanels
    THEN [i \in 1..Truncated(config.transition_duration_ms) |->
             Frame("transition", p, 0, "none", i - 1)]
    ELSE <<>>

ExpectedPanel(p) ==
    Repeated(Frame("base", p, 0, "none", 0), Truncated(config.base_duration_ms))
    \o ExpectedBubbles(p, panels[p].bubbles)
    \o Repeated(Frame("final", p, 0, "none", 0), Truncated(config.final_pause_ms))
    \o ExpectedTransition(p)

RECURSIVE ExpectedUpTo(_)
ExpectedUpTo(p) == IF p = 0 THEN <<>> ELSE ExpectedUpTo(p - 1) \o ExpectedPanel(p)
ExpectedTimeline == ExpectedUpTo(NumPanels)

IsTransition(f) == f.phase = "transition"
NotTransition(f) == f.phase # "transition"
TransitionsOf(p) ==
    SelectSeq(timeline, LAMBDA f : f.phase = "transition" /\ f.panel = p)

BubbleFramesOf(p) ==
    SelectSeq(timeline, LAMBDA f : f.phase = "bubble" /\ f.panel = p)

\* C13: the bubbles of a panel are revealed in the order of panel.bubbles,
\* none skipped, and every frame shows at most one bubble: a frame of
\* bubble k shows bubble k and no other, every other frame shows none.
C13_OneBubbleInArrayOrder ==
    /\ \A n \in DOMAIN timeline :
          LET f == timeline[n]
          IN  IF f.phase = "bubble"
              THEN /\ f.shown = {f.bubble}
                   /\ f.bubble \in 1..panels[f.panel].bubbles
              ELSE /\ f.shown = {}
                   /\ f.bubble = 0
    /\ \A p \in 1..NumPanels :
          LET bs == BubbleFramesOf(p)
          IN  \A i \in DOMAIN bs :
                  IF i = 1 THEN bs[i].bubble = 1
                  ELSE bs[i].bubble \in {bs[i - 1].bubble, bs[i - 1].bubble + 1}

\* A build that returned after showing bubble 1 and then bubble 2 of the
\* second of its panels.
C13_Witness ==
    /\ Done /\ Returned
    /\ \E m, n \in DOMAIN timeline :
          /\ m < n
          /\ timeline[m].panel = 2 /\ timeline[n].panel = 2
          /\ timeline[m].shown = {1}
          /\ timeline[n].shown = {2}

\* The place of a frame in the state machine of its panel.
PhaseRank(ph) ==
    CASE ph = "base" -> 1
      [] ph = "bubble" -> 2
      [] ph = "final" -> 3
      [] ph = "transition" -> 4

\* Frame f belongs to a stage that comes before the stage of frame g.
StageBefore(f, g) ==
    \/ f.panel < g.panel
    \/ /\ f.panel = g.panel
       /\ \/ PhaseRank(f.phase) < PhaseRank(g.phase)
          \/ /\ f.phase = "bubble" /\ g.phase = "bubble"
             /\ f.bubble < g.bubble

SameStage(f, g) ==
    f.panel = g.panel /\ f.phase = g.phase /\ f.bubble = g.bubble

\* Number of frames a complete stage of the kind of f has.
StageLength(f) ==
    CASE f.phase = "base" -> Truncated(config.base_duration_ms)
      [] f.phase = "bubble" -> Truncated(config.bubble_duration_ms)
      [] f.phase = "final" -> Truncated(config.final_pause_ms)
      [] f.phase = "transition" -> Truncated(config.transition_duration_ms)

\* The frames of the stage of timeline[n] end at n and are as many as a
\* complete stage has.
StageCompleteAt(n) ==
    LET f == timeline[n]
        L == StageLength(f)
    IN  /\ n >= L
        /\ SameStage(timeline[n - L + 1], f)
        /\ (n = L \/ ~SameStage(timeline[n - L], f))

\* The base, bubble and final-pause stages of panel q, as frames.
StagesOf(q) ==
    {Frame("base", q, 0, "none", 0), Frame("final", q, 0, "none", 0)}
    \cup {Frame("bubble", q, b, "none", 0) : b \in 1..panels[q].bubbles}

\* No stage that has frames lies between the stages of f and g.
NoStageSkipped(f, g) ==
    \A q \in (f.panel..g.panel) \cap (1..NumPanels) : \A st \in StagesOf(q) :
        (StageBefore(f, st) /\ StageBefore(st, g)) => StageLength(st) = 0

\* C20: at every moment of a build the frames saved so far are ordered as
\* the per-panel state machine run in panel list order: base frames, the
\* bubbles in array order, final-pause frames, then transition frames.  No
\* frame is followed by a frame of an earlier stage (stages are ordered by
\* panel, phase and bubble, so comparing neighbours compares all: no frame
\* of panel i+1 precedes a frame of panel i); a base, bubble or final stage
\* is complete when a frame of another stage follows; between two
\* neighbouring frames no base, bubble or final stage that has frames is
\* left out, nor before the first frame; and no transition frame belongs to
\* the last panel.
C20_PanelStateMachineOrder ==
    /\ \A n \in DOMAIN timeline :
          /\ timeline[n].phase \in {"base", "bubble", "final", "transition"}
          /\ timeline[n].panel \in 1..NumPanels
          /\ timeline[n].phase = "transition" => timeline[n].panel < NumPanels
    /\ timeline # <<>> =>
          NoStageSkipped(Frame("none", 0, 0, "none", 0), timeline[1])
    /\ \A n \in 1..(Len(timeline) - 1) :
          LET f == timeline[n]
              g == timeline[n + 1]
          IN  /\ ~StageBefore(g, f)
              /\ (~SameStage(f, g) /\ f.phase # "transition") => StageCompleteAt(n)
              /\ ~SameStage(f, g) => NoStageSkipped(f, g)

\* A build of two panels that returned with every stage in its timeline:
\* bubble frames in both panels and transition frames between them.
C20_Witness ==
    /\ Done /\ Returned
    /\ NumPanels = 2
    /\ \E a, b, c, d \in DOMAIN timeline :
          /\ a < b /\ b < c /\ c < d
          /\ timeline[a].phase = "bubble" /\ timeline[a].panel = 1
          /\ timeline[b].phase = "transition"
          /\ timeline[c].phase = "bubble" /\ timeline[c].panel = 2
          /\ timeline[d].phase = "final" /\ timeline[d].panel = 2

\* ====================================================================
\* _scale_to_cover and _crop_center (video_service.py, lines 75-98)
\* ====================================================================
\* Sides of the source images tried: every size from 1 x 1 to this.
MaxSide == 12

\* (self.config.width, self.config.height): the default of VideoConfig and
\* a smaller portrait size.
Targets == {<<1080, 1920>>, <<720, 1280>>}

\* ----------------------------------------- binary64 arithmetic on integers
\* Python floats are IEEE-754 binary64: a / b is the quotient rounded to 53
\* significant bits (ties to even), n * q the product rounded likewise, and
\* int() truncates.  For positive integers n, a, b far below 2^31, the
\* operators below compute int(n * (a / b)) exactly, with integers only.
RECURSIVE Pow2(_)
Pow2(e) == IF e = 0 THEN 1 ELSE 2 * Pow2(e - 1)

\* The largest e with 2^e <= q, for q >= 1.
RECURSIVE FloorLog2(_)
FloorLog2(q) == IF q < 2 THEN 0 ELSE 1 + FloorLog2(q \div 2)

\* The least j with a * 2^j >= b.
RECURSIVE ShiftsToReach(_, _)
ShiftsToReach(a, b) == IF a >= b THEN 0 ELSE 1 + ShiftsToReach(2 * a, b)

\* The exponent of a / b: the largest e (negative when a < b) with
\* 2^e <= a / b.
QuotientExponent(a, b) ==
    IF a >= b THEN FloorLog2(a \div b) ELSE 0 - ShiftsToReach(a, b)

\* (x * 2^e) mod m.
RECURSIVE ShiftMod(_, _, _)
ShiftMod(x, e, m) == IF e = 0 THEN x % m ELSE ShiftMod((2 * x) % m, e - 1, m)

\* With q = a / b rounded to 53 bits and written q = sig / 2^e (sig the
\* 53-bit significand), the error of the division scaled by b * 2^e:
\* a * 2^e - b * sig.  Positive when the quotient was rounded down.
DivisionError(a, b) ==
    LET e == 52 - QuotientExponent(a, b)
        r2 == ShiftMod(a, e, 2 * b)
        r0 == r2 % b
        odd == r2 \div b
        up == 2 * r0 > b \/ (2 * r0 = b /\ odd = 1)
    IN  IF up THEN r0 - b ELSE r0

\* int(n * (a / b)) in binary64.  The product is n*a/b less
\* n * DivisionError / (b * 2^e).  When n*a/b is not a whole number, or the
\* quotient was not rounded down, truncation gives floor(n*a/b).  When it is
\* a whole number Q and the quotient was rounded down, the product lies
\* just below Q and rounds to Q unless it is more than half a unit in the
\* last place below it, in which case int() gives Q - 1.
IntOfProduct(n, a, b) ==
    LET Q == (n * a) \div b
        R == (n * a) % b
        err == DivisionError(a, b)
    IN  IF R > 0 \/ err <= 0 \/ Q = 0 THEN Q
        ELSE LET EQ == FloorLog2(Q)
                 d == EQ - QuotientExponent(a, b)
                 lhs == (IF Pow2(EQ) = Q THEN 4 ELSE 2) * n * err
             IN  IF lhs > b * Pow2(d) THEN Q - 1 ELSE Q

\* scale = max(target_w / img.width, target_h / img.height) (line 81), as
\* the fraction that is the larger: rounding is monotone, so the larger
\* float is the rounded larger fraction.
Scale(size, target) ==
    IF target[1] * size[2] >= target[2] * size[1]
    THEN <<target[1], size[1]>>
    ELSE <<target[2], size[2]>>

\* _scale_to_cover (lines 75-86): the size of the resized image,
\* (int(img.width * scale), int(img.height * scale)).
scale_to_cover(size, target) ==
    LET scale == Scale(size, target)
    IN  <<IntOfProduct(size[1], scale[1], scale[2]),
          IntOfProduct(size[2], scale[1], scale[2])>>

\* _crop_center (lines 88-98): the box (left, top, right, bottom); // is
\* floor division.
crop_center(size, target) ==
    LET left == (size[1] - target[1]) \div 2
        top == (size[2] - target[2]) \div 2
    IN  <<left, top, left + target[1], top + target[2]>>

\* Image.crop: the result has the size of the box whatever the image; the
\* part of the box outside the image is filled with zero pixels.
CropSize(box) == <<box[3] - box[1], box[4] - box[2]>>

GeomInit ==
    /\ BuildIdle /\ ConcIdle /\ RouteIdle /\ FidIdle /\ ExtraIdle
    /\ geom_pc = "img"
    /\ img_size \in (1..MaxSide) \X (1..MaxSide)
    /\ target_size \in Targets
    /\ scaled_size = <<0, 0>>
    /\ crop_box = <<0, 0, 0, 0>>
    /\ cropped_size = <<0, 0>>

ScaleToCover ==
    /\ geom_pc = "img"
    /\ scaled_size' = scale_to_cover(img_size, target_size)
    /\ geom_pc' = "scaled"
    /\ UNCHANGED <<img_size, target_size, crop_box, cropped_size>>
    /\ UNCHANGED <<buildv, concv, routev, fidv, extrav>>

CropCenter ==
    /\ geom_pc = "scaled"
    /\ crop_box' = crop_center(scaled_size, target_size)
    /\ cropped_size' = CropSize(crop_center(scaled_size, target_size))
    /\ geom_pc' = "cropped"
    /\ UNCHANGED <<img_size, target_size, scaled_size>>
    /\ UNCHANGED <<buildv, concv, routev, fidv, extrav>>

GeomNext ==
    \/ ScaleToCover
    \/ CropCenter

SpecGeom == GeomInit /\ [][GeomNext]_vars

\* The box lies inside an image of the given size.
BoxInside(box, size) ==
    /\ 0 <= box[1] /\ box[3] <= size[1]
    /\ 0 <= box[2] /\ box[4] <= size[2]

\* C14: for every source image and every target, the cropped image has
\* exactly the target size, the scaled image is at least as wide and as
\* high as the target, and the crop box lies inside the scaled image.
C14_ScaledCoversTarget ==
    geom_pc = "cropped" =>
        /\ cropped_size = target_size
        /\ scaled_size[1] >= target_size[1]
        /\ scaled_size[2] >= target_size[2]
        /\ BoxInside(crop_box, scaled_size)

\* ====================================================================
\* Several builds on the video_service singleton (lines 29-59, 291-296,
\* 509-514, 522-523)
\* ====================================================================
\* Number of generate_video calls that run at the same time.
NumBuilds == 2
\* Frames a build saves at most.
MaxFrames == 2

Builds == 1..NumBuilds

\* The names tempfile.mkdtemp(prefix="video_gen_") can draw.  A name is free
\* again once its directory has been removed.
DirNames == 1..NumBuilds

\* A build holds a workspace from mkdtemp until its teardown has run.
Live(b) == builds[b].pc \in {"frames", "font_load", "bubble", "teardown"}

\* The other builds that hold directory d, or wrote the file now at (d, n).
Clash(b, d, n) ==
    {c \in Builds \ {b} : Live(c) /\ builds[c].temp_dir = d}
    \cup {f.by : f \in {g \in fs_files : g.dir = d /\ g.n = n /\ g.by # b}}

BuildsInit ==
    /\ BuildIdle /\ GeomIdle /\ RouteIdle /\ FidIdle /\ ExtraIdle
    /\ builds = [b \in Builds |-> [pc |-> "call", temp_dir |-> 0, frame_idx |-> 0]]
    /\ fs_dirs = {}
    /\ fs_files = {}
    /\ shared_font = "None"
    /\ write_log = {}
    /\ rm_log = {}
    /\ attr_log = {}

\* A workspace at one fixed place, created if it is not there yet.
MkdtempFixedName(b) ==
    /\ builds[b].pc = "call"
    /\ fs_dirs' = fs_dirs \cup {1}
    /\ builds' = [builds EXCEPT ![b] = [pc |-> "frames", temp_dir |-> 1, frame_idx |-> 0]]
    /\ UNCHANGED <<fs_files, shared_font, write_log, rm_log, attr_log>>
    /\ UNCHANGED <<buildv, geomv, routev, fidv, extrav>>

\* temp_dir = tempfile.mkdtemp(prefix="video_gen_") (line 291): creates a
\* directory under a name no existing directory has; frame_idx = 0.
Mkdtemp(b) ==
    /\ builds[b].pc = "call"
    /\ \E d \in DirNames \ fs_dirs :
          /\ fs_dirs' = fs_dirs \cup {d}
          /\ builds' = [builds EXCEPT ![b] = [pc |-> "frames", temp_dir |-> d, frame_idx |-> 0]]
    /\ UNCHANGED <<fs_files, shared_font, write_log, rm_log, attr_log>>
    /\ UNCHANGED <<buildv, geomv, routev, fidv, extrav>>

\* render_bubble reads self.font (lines 139, 228): `if self._font is None`
\* (line 36) is evaluated; the font is loaded next when it was None.
ReadFont(b) ==
    /\ builds[b].pc = "frames"
    /\ builds[b].frame_idx < MaxFrames
    /\ builds' = [builds EXCEPT ![b].pc =
                     IF shared_font = "None" THEN "font_load" ELSE "bubble"]
    /\ UNCHANGED <<fs_dirs, fs_files, shared_font, write_log, rm_log, attr_log>>
    /\ UNCHANGED <<buildv, geomv, routev, fidv, extrav>>

\* self._font = ImageFont.truetype(...) or load_default() (lines 47-57).
LoadFont(b) ==
    /\ builds[b].pc = "font_load"
    /\ shared_font' = "loaded"
    /\ attr_log' = attr_log \cup {[attr |-> "_font", by |-> b]}
    /\ builds' = [builds EXCEPT ![b].pc = "bubble"]
    /\ UNCHANGED <<fs_dirs, fs_files, write_log, rm_log>>
    /\ UNCHANGED <<buildv, geomv, routev, fidv, extrav>>

\* frame.save(os.path.join(temp_dir, f"frame_{frame_idx:06d}.png"));
\* frame_idx += 1: a frame without a bubble, or the frame of the bubble
\* just rendered.  A file already at the path is replaced.
SaveFrame(b) ==
    /\ builds[b].pc \in {"frames", "bubble"}
    /\ builds[b].frame_idx < MaxFrames
    /\ LET d == builds[b].temp_dir
           n == builds[b].frame_idx
       IN  /\ fs_files' = {f \in fs_files : ~(f.dir = d /\ f.n = n)}
                             \cup {[dir |-> d, n |-> n, by |-> b]}
           /\ write_log' = write_log \cup
                 {[dir |-> d, n |-> n, by |-> b, over |-> Clash(b, d, n)]}
    /\ builds' = [builds EXCEPT ![b].pc = "frames",
                                 ![b].frame_idx = builds[b].frame_idx + 1]
    /\ UNCHANGED <<fs_dirs, shared_font, rm_log, attr_log>>
    /\ UNCHANGED <<buildv, geomv, routev, fidv, extrav>>

\* The try block ends, by the return or by an exception.
EndBuild(b) ==
    /\ builds[b].pc = "frames"
    /\ builds' = [builds EXCEPT ![b].pc = "teardown"]
    /\ UNCHANGED <<fs_dirs, fs_files, shared_font, write_log, rm_log, attr_log>>
    /\ UNCHANGED <<buildv, geomv, routev, fidv, extrav>>

\* finally: shutil.rmtree(temp_dir) (line 512) removes the directory of
\* that name with everything in it.
Teardown(b) ==
    /\ builds[b].pc = "teardown"
    /\ LET d == builds[b].temp_dir
           gone == {f \in fs_files : f.dir = d}
       IN  /\ fs_files' = fs_files \ gone
           /\ fs_dirs' = fs_dirs \ {d}
           /\ rm_log' = rm_log \cup {[writer |-> f.by, remover |-> b] : f \in gone}
    /\ builds' = [builds EXCEPT ![b].pc = "done"]
    /\ UNCHANGED <<shared_font, write_log, attr_log>>
    /\ UNCHANGED <<buildv, geomv, routev, fidv, extrav>>

\* shutil.rmtree raises: logged (line 514), the directory stays.
TeardownFail(b) ==
    /\ builds[b].pc = "teardown"
    /\ builds' = [builds EXCEPT ![b].pc = "done"]
    /\ UNCHANGED <<fs_dirs, fs_files, shared_font, write_log, rm_log, attr_log>>
    /\ UNCHANGED <<buildv, geomv, routev, fidv, extrav>>

BuildsNext ==
    \/ \E b \in Builds : Mkdtemp(b)
    \/ \E b \in Builds : ReadFont(b)
    \/ \E b \in Builds : LoadFont(b)
    \/ \E b \in Builds : SaveFrame(b)
    \/ \E b \in Builds : EndBuild(b)
    \/ \E b \in Builds : Teardown(b)
    \/ \E b \in Builds : TeardownFail(b)

SpecBuilds == BuildsInit /\ [][BuildsNext]_vars

\* What belongs to one build alone: its workspace, the paths it writes, its
\* frame index, the files its teardown removes.
WorkspacesIsolated ==
    /\ \A b, c \in Builds :
          (b # c /\ Live(b) /\ Live(c)) => builds[b].temp_dir # builds[c].temp_dir
    /\ \A f \in fs_files : builds[f.by].temp_dir = f.dir
    /\ \A e \in write_log : e.over = {}
    /\ \A b \in Builds :
          builds[b].frame_idx = Cardinality({e \in write_log : e.by = b})
    /\ \A e \in rm_log : e.writer = e.remover

\* C15 as stated: concurrent builds share no mutable state: no build
\* assigns anything that another build reads, and workspaces, frame paths,
\* frame indices and teardowns are each build's own.
C15_NoSharedMutableState ==
    /\ attr_log = {}
    /\ WorkspacesIsolated

\* C15 amended: the one mutable state concurrent builds share is the font
\* cached on the singleton (_font), which a build that draws a bubble
\* assigns when it finds it unset; a workspace is held by one build at a
\* time, no build writes a path in a workspace another build holds or
\* replaces a file another build wrote, a build's frame index counts its own
\* saves only, and a teardown removes only files of its own build.
C15_OnlyFontShared ==
    /\ \A e \in attr_log : e.attr = "_font"
    /\ (attr_log # {}) <=> (shared_font = "loaded")
    /\ WorkspacesIsolated

\* Two builds at work at the same time, each with a frame saved in its own
\* workspace, after both have assigned the shared font.
C15_Witness ==
    /\ Live(1) /\ Live(2)
    /\ \E f, g \in fs_files : f.by = 1 /\ g.by = 2
    /\ attr_log = {[attr |-> "_font", by |-> 1], [attr |-> "_font", by |-> 2]}

\* ====================================================================
\* should_continue (workflows/fidelity_workflow.py)
\* ====================================================================
MaxIterations == 3

\* Python values of type Optional[str]: None is <<>>, the str s is <<s>>.
PyNone == <<>>
Str(s) == <<s>>

\* bool(v) of an Optional[str]: None and "" are falsy.
Truthy(v) == v # PyNone /\ v[1] # ""

\* A dict is a function on its keys.  dict.get(key, default).
Get(d, key, default) == IF key \in DOMAIN d THEN d[key] ELSE default

\* The dicts that have the key with one of the values, or do not have it.
Field(key, values) == { <<>> } \cup { key :> v : v \in values }

\* The states should_continue is applied to: every key it reads is absent
\* or holds a value of its type.
RouteStates ==
    { e @@ v @@ i @@ m :
        e \in Field("error", {PyNone, Str(""), Str("Evaluator failed: timeout")}),
        v \in Field("is_validated", BOOLEAN),
        i \in Field("iteration", 0..(MaxIterations + 1)),
        m \in Field("max_iterations", 1..MaxIterations) }

should_continue_ends_at_limit(state) ==
    IF Truthy(Get(state, "error", PyNone)) THEN "end"
    ELSE IF Get(state, "is_validated", FALSE) THEN "end"
    ELSE IF Get(state, "iteration", 1) >= Get(state, "max_iterations", 3) THEN "end"
    ELSE "webtoon_scripter"

should_continue(state) ==
    IF Truthy(Get(state, "error", PyNone)) THEN "end"
    ELSE IF Get(state, "is_validated", FALSE) THEN "end"
    ELSE IF Get(state, "iteration", 1) > Get(state, "max_iterations", 3) THEN "end"
    ELSE "webtoon_scripter"

RouteInit ==
    /\ BuildIdle /\ GeomIdle /\ ConcIdle /\ FidIdle /\ ExtraIdle
    /\ route_state \in RouteStates
    /\ route = "none"

ShouldContinue ==
    /\ route = "none"
    /\ route' = should_continue(route_state)
    /\ UNCHANGED <<route_state, buildv, geomv, concv, fidv, extrav>>

RouteNext == ShouldContinue

SpecRoute == RouteInit /\ [][RouteNext]_vars

\* C16: should_continue returns "end" exactly when the state has a truthy
\* error, or is_validated is true, or iteration > max_iterations (a missing
\* iteration counting as 1 and a missing max_iterations as 3), and
\* "webtoon_scripter" in every other case.  An error ends the loop whatever
\* is_validated and the iterations are, validation ends it whatever the
\* iterations are, and iteration = max_iterations continues.
C16_EndExactlyOnErrorValidatedOrLimit ==
    route # "none" =>
        LET has_error == /\ "error" \in DOMAIN route_state
                         /\ route_state["error"] \notin {PyNone, Str("")}
            validated == /\ "is_validated" \in DOMAIN route_state
                         /\ route_state["is_validated"]
            iteration == IF "iteration" \in DOMAIN route_state
                         THEN route_state["iteration"] ELSE 1
            limit == IF "max_iterations" \in DOMAIN route_state
                     THEN route_state["max_iterations"] ELSE 3
        IN  /\ route \in {"end", "webtoon_scripter"}
            /\ route = "end" <=> (has_error \/ validated \/ iteration > limit)
            /\ has_error => route = "end"
            /\ validated => route = "end"
            /\ (~has_error /\ ~validated /\ iteration = limit) =>
                   route = "webtoon_scripter"

\* The routing function continued on an unvalidated, error-free state whose
\* iteration equals its max_iterations.
C16_Witness ==
    /\ route = "webtoon_scripter"
    /\ DOMAIN route_state = {"error", "is_validated", "iteration", "max_iterations"}
    /\ route_state["iteration"] = route_state["max_iterations"]
    /\ route_state["error"] = Str("")

\* ====================================================================
\* run_fidelity_workflow (workflows/fidelity_workflow.py)
\* ====================================================================
\* The graph runs its nodes one after the other: story_architect,
\* webtoon_scripter, blind_reader, evaluator, then should_continue chooses
\* webtoon_scripter again or END.  A node returns a dict of the keys it
\* updates and the graph writes them into the state.  What the language
\* model answers is the environment's choice: every service call returns
\* one of its possible outputs or raises.

\* fidelity_threshold values, and the fidelity scores the evaluator gives:
\* 60 passes the lower threshold only, 80 passes both, 0 passes none and
\* leaves the validation history empty.
Thresholds == {60, 80}
Scores == {0, 60, 80}

\* str(e) of the exception a service call raises.
ExcMessages == {"", "timeout"}

\* The arguments of run_fidelity_workflow.  max_iterations is what the
\* request model admits (FidelityValidationRequest: ge=1), up to the bound.
RunArgs ==
    [seed : {"seed"}, max_iterations : 1..MaxIterations,
     fidelity_threshold : Thresholds]

\* Results of story_architect.generate_story.  A dict of str to str is a
\* set of pairs, a list is a sequence.  The second has no plot_points.
StoryOutputs ==
    { [story |-> "story A", summary |-> "summary A",
       character_motivations |-> {<<"hero", "revenge">>},
       key_conflicts |-> <<"duel">>, plot_points |-> <<"oath", "duel">>],
      [story |-> "story B", summary |-> "summary B",
       character_motivations |-> {<<"heir", "escape">>},
       key_conflicts |-> <<"debt">>] }

\* Results of webtoon_scripter.convert_to_panels and revise_panels after
\* to_state_format: a first draft, and a revision that keeps the panels or
\* adds one.
ConvertOutputs ==
    { [panels |-> <<"panel 1">>, characters |-> <<"hero">>],
      [panels |-> <<"panel 1", "panel 2">>, characters |-> <<"hero", "rival">>] }

ReviseOutputs(current_panels, current_characters) ==
    { [panels |-> current_panels, characters |-> current_characters],
      [panels |-> Append(current_panels, "added panel"),
       characters |-> current_characters] }

\* Results of blind_reader.reconstruct_from_filtered_state.  overall_confidence
\* is a percentage; the res has no unclear_elements.
ReaderOutputs ==
    { [reconstructed_story |-> "reading", inferred_motivations |-> {},
       inferred_conflicts |-> <<>>, overall_confidence |-> 70] }

\* Results of fidelity_evaluator.evaluate under the threshold.
EvaluatorOutputs(threshold) ==
    { [fidelity_score |-> score, gaps |-> <<>>, critique |-> critique,
       is_valid |-> score >= threshold] :
        score \in Scores, critique \in {Str(""), Str("motive unclear")} }

Nodes == {"story_architect", "webtoon_scripter", "blind_reader", "evaluator"}

initial_state_from_zero(args) ==
    [seed |-> args.seed,
     original_story |-> "", story_summary |-> "", character_motivations |-> {},
     key_conflicts |-> <<>>, plot_points |-> <<>>,
     script_panels |-> <<>>, characters |-> <<>>,
     reconstructed_story |-> "", inferred_motivations |-> {},
     inferred_conflicts |-> <<>>, unclear_elements |-> <<>>,
     reader_confidence |-> 0,
     fidelity_score |-> 0, information_gaps |-> <<>>, critique |-> PyNone,
     iteration |-> 0, max_iterations |-> args.max_iterations,
     is_validated |-> FALSE, current_step |-> "starting", error |-> PyNone]

\* reader_confidence is kept in hundredths.
initial_state(args) ==
    [seed |-> args.seed,
     original_story |-> "", story_summary |-> "", character_motivations |-> {},
     key_conflicts |-> <<>>, plot_points |-> <<>>,
     script_panels |-> <<>>, characters |-> <<>>,
     reconstructed_story |-> "", inferred_motivations |-> {},
     inferred_conflicts |-> <<>>, unclear_elements |-> <<>>,
     reader_confidence |-> 0,
     fidelity_score |-> 0, information_gaps |-> <<>>, critique |-> PyNone,
     iteration |-> 1, max_iterations |-> args.max_iterations,
     is_validated |-> FALSE, current_step |-> "starting", error |-> PyNone]

\* The graph writes the keys a node returned into the state.
Merge(state, update) ==
    [key \in DOMAIN state |->
        IF key \in DOMAIN update THEN update[key] ELSE state[key]]

\* What a node returns from its except branch.
Failed(node, e) ==
    [error |-> Str(node \o " failed: " \o e), current_step |-> "failed"]

story_architect_update(res) ==
    [original_story |-> res.story,
     story_summary |-> res.summary,
     character_motivations |-> res.character_motivations,
     key_conflicts |-> res.key_conflicts,
     plot_points |-> Get(res, "plot_points", <<>>),
     current_step |-> "story_architect_complete"]

\* The scripter revises when there is a critique and iteration > 1, and
\* converts the original story otherwise.
ScripterOutputs(state) ==
    IF Truthy(Get(state, "critique", PyNone)) /\ Get(state, "iteration", 1) > 1
    THEN ReviseOutputs(Get(state, "script_panels", <<>>),
                       Get(state, "characters", <<>>))
    ELSE ConvertOutputs

webtoon_scripter_update(res) ==
    [script_panels |-> res.panels,
     characters |-> res.characters,
     current_step |-> "webtoon_scripter_complete"]

filter_state_with_story(state) ==
    [script_panels |-> state.script_panels,
     characters |-> state.characters,
     original_story |-> state.original_story]

\* filter_state_for_blind_reader raises when a required field is missing.
FilterRaises(state) == ~({"script_panels", "characters"} \subseteq DOMAIN state)

filter_state_for_blind_reader(state) ==
    [script_panels |-> state.script_panels,
     characters |-> state.characters]

\* validate_no_leak: no key but the two allowed ones.  Its search of the
\* serialized input for the names of ground truth fields finds nothing in
\* panels and characters made by to_state_format.
validate_no_leak(filtered_input) ==
    DOMAIN filtered_input \ {"script_panels", "characters"} = {}

blind_reader_update(res) ==
    [reconstructed_story |-> res.reconstructed_story,
     inferred_motivations |-> res.inferred_motivations,
     inferred_conflicts |-> res.inferred_conflicts,
     unclear_elements |-> Get(res, "unclear_elements", <<>>),
     reader_confidence |-> res.overall_confidence,
     current_step |-> "blind_reader_complete"]

evaluator_update(state, res) ==
    [fidelity_score |-> res.fidelity_score,
     information_gaps |-> res.gaps,
     critique |-> res.critique,
     is_validated |-> res.is_valid,
     iteration |-> Get(state, "iteration", 1) + 1,
     current_step |-> "evaluator_complete"]

StatusValidatedFirst(final_state) ==
    IF Get(final_state, "is_validated", FALSE) THEN "validated"
    ELSE IF Truthy(Get(final_state, "error", PyNone)) THEN "error"
    ELSE "max_iterations_reached"

Status(final_state) ==
    IF Truthy(Get(final_state, "error", PyNone)) THEN "error"
    ELSE IF Get(final_state, "is_validated", FALSE) THEN "validated"
    ELSE "max_iterations_reached"

\* The response with iterations_used taken from the iteration counter as it
\* stands.
ResponseIterationAsIs(final_state) ==
    [status |-> Status(final_state),
     final_score |-> Get(final_state, "fidelity_score", 0),
     iterations_used |-> Get(final_state, "iteration", 1),
     original_story |-> Get(final_state, "original_story", ""),
     script_panels |-> Get(final_state, "script_panels", <<>>),
     characters |-> Get(final_state, "characters", <<>>),
     validation_history |-> <<>>,
     error |-> Get(final_state, "error", PyNone)]

\* The FidelityValidationResponse without workflow_id and created_at.
Response(final_state) ==
    [status |-> Status(final_state),
     final_score |-> Get(final_state, "fidelity_score", 0),
     iterations_used |-> Get(final_state, "iteration", 1) - 1,
     original_story |-> Get(final_state, "original_story", ""),
     script_panels |-> Get(final_state, "script_panels", <<>>),
     characters |-> Get(final_state, "characters", <<>>),
     validation_history |->
        IF Get(final_state, "fidelity_score", 0) > 0
        THEN << [iteration |-> Get(final_state, "iteration", 1) - 1,
                 fidelity_score |-> Get(final_state, "fidelity_score", 0),
                 critique |-> Get(final_state, "critique", Str("")),
                 reader_confidence |-> Get(final_state, "reader_confidence", 0)] >>
        ELSE <<>>,
     error |-> Get(final_state, "error", PyNone)]

\* The evaluator singleton has its constructor's threshold.
FidInit ==
    /\ BuildIdle /\ GeomIdle /\ ConcIdle /\ RouteIdle /\ ExtraIdle
    /\ wf_args \in RunArgs
    /\ wf_pc = "call"
    /\ wf_state = <<>>
    /\ wf_threshold = 80
    /\ wf_response = <<>>
    /\ blind_read = <<>>
    /\ evaluations = 0
    /\ loops = 0
    /\ runs = [n \in Nodes |-> 0]
    /\ failures = {}

fid_others == <<buildv, geomv, concv, routev, extrav, wf_args>>

Ran(node) == runs' = [runs EXCEPT ![node] = @ + 1]
NodeFailed(node) == failures' = failures \cup {[node |-> node, loops |-> loops]}

\* run_fidelity_workflow up to ainvoke.
StartRun ==
    /\ wf_pc = "call"
    /\ wf_threshold' = wf_args.fidelity_threshold
    /\ wf_state' = initial_state(wf_args)
    /\ wf_pc' = "story_architect"
    /\ UNCHANGED <<fid_others, wf_response, blind_read, evaluations, loops,
                   runs, failures>>

StoryArchitectOk ==
    /\ wf_pc = "story_architect"
    /\ \E res \in StoryOutputs :
          wf_state' = Merge(wf_state, story_architect_update(res))
    /\ Ran("story_architect")
    /\ wf_pc' = "webtoon_scripter"
    /\ UNCHANGED <<fid_others, wf_threshold, wf_response, blind_read,
                   evaluations, loops, failures>>

StoryArchitectFail ==
    /\ wf_pc = "story_architect"
    /\ \E e \in ExcMessages :
          wf_state' = Merge(wf_state, Failed("Story Architect", e))
    /\ Ran("story_architect")
    /\ NodeFailed("story_architect")
    /\ wf_pc' = "webtoon_scripter"
    /\ UNCHANGED <<fid_others, wf_threshold, wf_response, blind_read,
                   evaluations, loops>>

WebtoonScripterOk ==
    /\ wf_pc = "webtoon_scripter"
    /\ \E res \in ScripterOutputs(wf_state) :
          wf_state' = Merge(wf_state, webtoon_scripter_update(res))
    /\ Ran("webtoon_scripter")
    /\ wf_pc' = "blind_reader"
    /\ UNCHANGED <<fid_others, wf_threshold, wf_response, blind_read,
                   evaluations, loops, failures>>

WebtoonScripterFail ==
    /\ wf_pc = "webtoon_scripter"
    /\ \E e \in ExcMessages :
          wf_state' = Merge(wf_state, Failed("Webtoon Scripter", e))
    /\ Ran("webtoon_scripter")
    /\ NodeFailed("webtoon_scripter")
    /\ wf_pc' = "blind_reader"
    /\ UNCHANGED <<fid_others, wf_threshold, wf_response, blind_read,
                   evaluations, loops>>

\* The filter and the leak check passed and the reader answered.
BlindReaderOk ==
    /\ wf_pc = "blind_reader"
    /\ ~FilterRaises(wf_state)
    /\ LET filtered_state == filter_state_for_blind_reader(wf_state)
       IN  /\ validate_no_leak(filtered_state)
           /\ blind_read' = [state |-> wf_state,
                             filtered_state |-> <<filtered_state>>,
                             reader_args |-> <<filtered_state>>]
    /\ \E res \in ReaderOutputs :
          wf_state' = Merge(wf_state, blind_reader_update(res))
    /\ Ran("blind_reader")
    /\ wf_pc' = "evaluator"
    /\ UNCHANGED <<fid_others, wf_threshold, wf_response, evaluations, loops,
                   failures>>

\* The filter raised, the leak check raised, or the reader raised.
BlindReaderFail ==
    /\ wf_pc = "blind_reader"
    /\ blind_read' =
          IF FilterRaises(wf_state)
          THEN [state |-> wf_state, filtered_state |-> <<>>, reader_args |-> <<>>]
          ELSE LET filtered_state == filter_state_for_blind_reader(wf_state)
               IN  [state |-> wf_state,
                    filtered_state |-> <<filtered_state>>,
                    reader_args |-> IF validate_no_leak(filtered_state)
                                    THEN <<filtered_state>> ELSE <<>>]
    /\ \E e \in ExcMessages :
          wf_state' = Merge(wf_state, Failed("Blind Reader", e))
    /\ Ran("blind_reader")
    /\ NodeFailed("blind_reader")
    /\ wf_pc' = "evaluator"
    /\ UNCHANGED <<fid_others, wf_threshold, wf_response, evaluations, loops>>

EvaluatorOk ==
    /\ wf_pc = "evaluator"
    /\ \E res \in EvaluatorOutputs(wf_threshold) :
          wf_state' = Merge(wf_state, evaluator_update(wf_state, res))
    /\ evaluations' = evaluations + 1
    /\ Ran("evaluator")
    /\ wf_pc' = "routing"
    /\ UNCHANGED <<fid_others, wf_threshold, wf_response, blind_read, loops,
                   failures>>

EvaluatorFail ==
    /\ wf_pc = "evaluator"
    /\ \E e \in ExcMessages :
          wf_state' = Merge(wf_state, Failed("Evaluator", e))
    /\ Ran("evaluator")
    /\ NodeFailed("evaluator")
    /\ wf_pc' = "routing"
    /\ UNCHANGED <<fid_others, wf_threshold, wf_response, blind_read,
                   evaluations, loops>>

\* The conditional edge after the evaluator.
Route ==
    /\ wf_pc = "routing"
    /\ IF should_continue(wf_state) = "webtoon_scripter"
       THEN /\ wf_pc' = "webtoon_scripter"
            /\ loops' = loops + 1
       ELSE /\ wf_pc' = "END"
            /\ loops' = loops
    /\ UNCHANGED <<fid_others, wf_state, wf_threshold, wf_response, blind_read,
                   evaluations, runs, failures>>

\* run_fidelity_workflow after ainvoke.
Respond ==
    /\ wf_pc = "END"
    /\ wf_response' = Response(wf_state)
    /\ wf_pc' = "returned"
    /\ UNCHANGED <<fid_others, wf_state, wf_threshold, blind_read, evaluations,
                   loops, runs, failures>>

FidNext ==
    \/ StartRun
    \/ StoryArchitectOk
    \/ StoryArchitectFail
    \/ WebtoonScripterOk
    \/ WebtoonScripterFail
    \/ BlindReaderOk
    \/ BlindReaderFail
    \/ EvaluatorOk
    \/ EvaluatorFail
    \/ Route
    \/ Respond

SpecFid == FidInit /\ [][FidNext]_vars

\* The event loop runs the workflow coroutine until it returns: every
\* awaited service call answers or raises.
FairFid == SpecFid /\ WF_vars(FidNext)

\* The ground truth a state can hold: none yet, or a story of the architect.
GroundTruths ==
    { [original_story |-> "", story_summary |-> "",
       character_motivations |-> {}, key_conflicts |-> <<>>,
       plot_points |-> <<>>] }
    \cup { story_architect_update(res) : res \in StoryOutputs }

\* States that differ from state in fields other than script_panels and
\* characters: the ground truth, the reconstruction, the critique, the
\* iteration and the error.
Variants(state) ==
    { Merge(Merge(state, truth),
            [reconstructed_story |-> reading, critique |-> critique,
             iteration |-> iteration, error |-> error]) :
        truth \in GroundTruths, reading \in {"", "reading"},
        critique \in {PyNone, Str("motive unclear")},
        iteration \in 1..2, error \in {PyNone, Str("Evaluator failed: ")} }

\* C17: blind-reader isolation.  Whenever blind_reader_node has run, the
\* filter returned a dict with exactly the keys script_panels and
\* characters, holding the values of the state; every state that differs
\* from the node's state only in original_story, story_summary,
\* character_motivations, key_conflicts, plot_points or another non-panel
\* field is filtered to the same dict; and the blind reader was called with
\* nothing but that dict.
C17_BlindReaderSeesOnlyPanels ==
    blind_read # <<>> =>
        /\ Len(blind_read.filtered_state) = 1
        /\ LET state == blind_read.state
               filtered == blind_read.filtered_state[1]
           IN  /\ DOMAIN filtered = {"script_panels", "characters"}
               /\ filtered.script_panels = state.script_panels
               /\ filtered.characters = state.characters
               /\ \A other \in Variants(state) :
                      filter_state_for_blind_reader(other) = filtered
               /\ \A n \in DOMAIN blind_read.reader_args :
                      blind_read.reader_args[n] = filtered

\* In the second pass of the loop the blind reader was called with the
\* revised panels while the state held the architect's story.
C17_Witness ==
    /\ blind_read # <<>>
    /\ Len(blind_read.reader_args) = 1
    /\ blind_read.state.original_story = "story A"
    /\ Len(blind_read.state.script_panels) = 3
    /\ loops = 1
    /\ wf_pc = "evaluator"

\* No node ran more often than max_iterations allows.
WithinMaxIterations ==
    /\ evaluations <= wf_args.max_iterations
    /\ loops <= wf_args.max_iterations - 1
    /\ runs["story_architect"] <= 1
    /\ \A node \in Nodes : runs[node] <= wf_args.max_iterations

C19_ErrorIsFinal ==
    failures # {} =>
        /\ Truthy(wf_state.error)
        /\ \A f \in failures : f.loops = loops
        /\ wf_pc = "returned" =>
              /\ wf_response.status = "error"
              /\ wf_response.error # PyNone
              /\ wf_response.error[1] # ""

\* The blind reader failed, the evaluator then validated the script, and the
\* run returned.
C19_Witness ==
    /\ wf_pc = "returned"
    /\ failures = {[node |-> "blind_reader", loops |-> 0]}
    /\ wf_state.is_validated
    /\ wf_response.status = "error"

\* ====================================================================
\* Frame files, transitions, bubbles and teardown of one build
\* ====================================================================
\* The numbers of the files in temp_dir are 0..n-1, n the number of frames
\* appended to frame_paths.
FilesAreFramePaths == DOMAIN files = 0..(Len(frame_paths) - 1)

\* ffmpeg is given the pattern frame_%06d.png: it reads the files of
\* temp_dir from number 0 up to the first number that is missing.
EncoderReading == pc \in {"encode", "encoding"}

\* C21 as stated: at every point of a build, while temp_dir exists, the
\* frames saved so far are numbered 0..n-1 without gap or duplicate, file
\* number i holds the frame at position i + 1 of the timeline, and when the
\* encoder is started the files it finds are those n frames and no other,
\* also after a transition was cut short by a failed save.
C21_FramesNumberedSequentially ==
    temp_dir = "present" =>
        /\ frame_idx = Len(frame_paths)
        /\ \A i \in DOMAIN frame_paths : frame_paths[i] = i - 1
        /\ Len(timeline) = Len(frame_paths)
        /\ (pc # "finally" /\ pc # "done") =>
              \A i \in DOMAIN timeline :
                  (i - 1) \in DOMAIN files /\ files[i - 1] = timeline[i]
        /\ EncoderReading => FilesAreFramePaths

\* ====================================================================
\* The scroll transition (video_service.py, lines 413-440)
\* ====================================================================
MaxTransitionFrames == 8

\* self.config.height: the default, a smaller one and a very small one.  For
\* these heights and every t < transition_frames up to the bound the double
\* precision results of lines 417-424 are the exact ones.
Heights == {1920, 1280, 16}

\* eased (line 419) for progress = t / total, as the fraction
\* EasedNum / EasedDen:
\*   0.5 - 0.5 * (1 - progress * 2) ** 2        if progress < 0.5
\*   0.5 + 0.5 * (1 - (1 - progress) * 2) ** 2  otherwise
EasedDen(total) == 2 * total * total

\* eased with the two halves of the curve exchanged.
EasedNumHalvesSwapped(t, total) ==
    IF 2 * t >= total
    THEN total * total - (total - 2 * t) * (total - 2 * t)
    ELSE total * total + (total - 2 * (total - t)) * (total - 2 * (total - t))

\* eased for progress = (t + 1) / total.
EasedNumOfNextStep(t, total) ==
    IF 2 * (t + 1) < total
    THEN total * total - (total - 2 * (t + 1)) * (total - 2 * (t + 1))
    ELSE total * total + (total - 2 * (total - t - 1)) * (total - 2 * (total - t - 1))

EasedNum(t, total) ==
    IF 2 * t < total
    THEN total * total - (total - 2 * t) * (total - 2 * t)
    ELSE total * total + (total - 2 * (total - t)) * (total - 2 * (total - t))

\* The curve 2p^2 for p < 0.5, 1 - 2(1-p)^2 otherwise, over EasedDen.
EaseInOutNum(t, total) ==
    IF 2 * t < total
    THEN 4 * t * t
    ELSE 2 * total * total - 4 * (total - t) * (total - t)

\* -int(self.config.height * eased) and int(self.config.height * (1 - eased))
current_y_offset(t, total, height) ==
    0 - ((height * EasedNum(t, total)) \div EasedDen(total))

next_y_offset(t, total, height) ==
    (height * (EasedDen(total) - EasedNum(t, total))) \div EasedDen(total)

\* One transition frame: a black frame, the current panel pasted at
\* (0, current_y_offset) if that is above -height, the next panel pasted at
\* (0, next_y_offset) if that is below height.
TransitionShot(t, total, height) ==
    [t |-> t,
     eased_num |-> EasedNum(t, total),
     current_y |-> current_y_offset(t, total, height),
     next_y |-> next_y_offset(t, total, height),
     current_pasted |-> current_y_offset(t, total, height) > 0 - height,
     next_pasted |-> next_y_offset(t, total, height) < height]

ScrollInit ==
    /\ BuildIdle /\ GeomIdle /\ ConcIdle /\ RouteIdle /\ FidIdle /\ BubbleIdle
    /\ CallsIdle
    /\ tr_pc = "loop"
    /\ tr_total \in 0..MaxTransitionFrames
    /\ tr_height \in Heights
    /\ tr_shots = <<>>

scroll_others == <<buildv, geomv, concv, routev, fidv, bubblev, callv, tr_total,
                   tr_height>>

\* for t in range(transition_frames): one frame is composed and saved.
ScrollFrame ==
    /\ tr_pc = "loop"
    /\ Len(tr_shots) < tr_total
    /\ tr_shots' = Append(tr_shots,
                          TransitionShot(Len(tr_shots), tr_total, tr_height))
    /\ UNCHANGED <<scroll_others, tr_pc>>

ScrollDone ==
    /\ tr_pc = "loop"
    /\ Len(tr_shots) = tr_total
    /\ tr_pc' = "done"
    /\ UNCHANGED <<scroll_others, tr_shots>>

ScrollNext == ScrollFrame \/ ScrollDone

SpecScroll == ScrollInit /\ [][ScrollNext]_vars

\* C22 as stated: in every transition frame t, with p = t / T, eased is
\* 2p^2 for p < 0.5 and 1 - 2(1-p)^2 otherwise, the current panel is at
\* vertical offset -(eased * height) and the next panel at
\* (1 - eased) * height.
C22_EaseInOutCurve ==
    \A n \in DOMAIN tr_shots :
        LET shot == tr_shots[n]
            eased == EaseInOutNum(shot.t, tr_total)
            den == EasedDen(tr_total)
        IN  /\ shot.eased_num = eased
            /\ shot.current_y = 0 - ((tr_height * eased) \div den)
            /\ shot.next_y = (tr_height * (den - eased)) \div den

\* The largest change of the next panel's offset between two consecutive
\* transition frames; 0 when there are no two frames.
RECURSIVE LargestStepUpTo(_)
LargestStepUpTo(n) ==
    IF n < 2 THEN 0
    ELSE LET step == tr_shots[n - 1].next_y - tr_shots[n].next_y
             rest == LargestStepUpTo(n - 1)
         IN  IF step > rest THEN step ELSE rest

LargestStep == LargestStepUpTo(Len(tr_shots))

\* The frame shows the current panel as its base frame does: pasted at
\* offset 0, the next panel below the frame.
ShowsFromPanel(shot) ==
    /\ shot.current_pasted /\ shot.current_y = 0
    /\ ~shot.next_pasted /\ shot.next_y = tr_height

\* C23 as stated: in every transition of T >= 1 frames the frame at t = 0
\* shows the 'from' panel as its base frame does, and at t = T-1 the next
\* panel's remaining offset is at most the largest change of offset between
\* two consecutive transition frames.
C23_EndsWithinOneStep ==
    (tr_pc = "done" /\ tr_total >= 1) =>
        /\ ShowsFromPanel(tr_shots[1])
        /\ tr_shots[tr_total].next_y <= LargestStep

\* C23, corrected: the frame at t = 0 shows the 'from' panel as its base
\* frame does in every transition of T >= 1 frames; at t = T-1 the next
\* panel's remaining offset is at most the largest change of offset between
\* two consecutive frames when T >= 2; a transition of one frame consists of
\* the 'from' frame alone, a whole frame height away from the 'to' panel.
C23_EndsWithinOneStepFromTwoFrames ==
    (tr_pc = "done" /\ tr_total >= 1) =>
        /\ ShowsFromPanel(tr_shots[1])
        /\ tr_total >= 2 =>
              /\ tr_shots[tr_total].next_y <= LargestStep
              /\ tr_shots[tr_total].next_pasted
        /\ tr_total = 1 => tr_shots[tr_total].next_y = tr_height

\* A finished transition of several frames whose last frame still has the
\* next panel short of its place.
C23_Witness ==
    /\ tr_pc = "done"
    /\ tr_total >= 3
    /\ tr_shots[tr_total].next_y > 0
    /\ tr_shots[tr_total].next_y = LargestStep

\* C27: in every transition frame the current panel is pasted and its bottom
\* edge (height plus its offset) is never above the top of the next panel, so
\* no row of the frame is left uncovered; from one frame to the next the
\* current panel's upward offset never decreases and the next panel's offset
\* never increases.
C27_NoUncoveredRow ==
    /\ \A n \in DOMAIN tr_shots :
          /\ tr_shots[n].current_pasted
          /\ tr_shots[n].current_y <= 0
          /\ tr_shots[n].next_y >= 0
          /\ tr_height + tr_shots[n].current_y >= tr_shots[n].next_y
    /\ \A n \in 1..(Len(tr_shots) - 1) :
          /\ tr_shots[n + 1].current_y <= tr_shots[n].current_y
          /\ tr_shots[n + 1].next_y <= tr_shots[n].next_y

\* A finished transition with a frame in which the two panels overlap by a
\* row and a later frame in which they meet exactly.
C27_Witness ==
    /\ tr_pc = "done"
    /\ tr_total >= 3
    /\ \E n \in DOMAIN tr_shots :
          /\ tr_shots[n].next_pasted
          /\ tr_height + tr_shots[n].current_y > tr_shots[n].next_y
    /\ \E n \in DOMAIN tr_shots :
          /\ tr_shots[n].next_pasted
          /\ tr_height + tr_shots[n].current_y = tr_shots[n].next_y

\* C24: render_bubble leaves the object it is given as it was and returns
\* another object; the scaled canvas and the base frame of a panel show no
\* bubble whatever bubbles have been rendered, each bubble is drawn on a
\* canvas without bubbles, and the final-pause frames of a panel have the
\* content of its base frames.
C24_RenderBubbleCopies ==
    /\ refs.base_scaled # 0 =>
          /\ heap[refs.base_scaled].phase = "base"
          /\ heap[refs.base_scaled].shown = {}
          /\ heap[refs.base_scaled].bubble = 0
          /\ heap[refs.final_base] = heap[refs.base_scaled]
          /\ refs.final_base # refs.base_scaled
    /\ refs.img_with_bubble # 0 =>
          /\ refs.img_with_bubble # refs.canvas
          /\ refs.canvas # refs.base_scaled
          /\ heap[refs.canvas] = heap[refs.base_scaled]
          /\ heap[refs.img_with_bubble].shown = {heap[refs.img_with_bubble].bubble}
          /\ heap[refs.frame_with_bubble] = heap[refs.img_with_bubble]
    /\ \A n \in DOMAIN timeline :
          LET f == timeline[n]
          IN  /\ f.phase = "base" => f = Frame("base", f.panel, 0, "none", 0)
              /\ f.phase = "final" =>
                    [f EXCEPT !.phase = "base"] = Frame("base", f.panel, 0, "none", 0)
              /\ f.phase = "bubble" => f.shown = {f.bubble}

\* The final pause of a panel is being written after two bubbles were
\* rendered, and base frames of the panel are on the timeline.
C24_Witness ==
    /\ pc = "final"
    /\ k >= 1
    /\ bubble_idx = 2
    /\ refs.img_with_bubble # 0
    /\ timeline[Len(timeline)].phase = "final"
    /\ \E n \in DOMAIN timeline :
          /\ timeline[n].phase = "base"
          /\ timeline[n].panel = timeline[Len(timeline)].panel

\* ====================================================================
\* The place of a bubble (video_service.py, lines 154-176, 199, 352-365)
\* ====================================================================
\* BubbleData.x and .y: percentages from 0 to 100 (video_models.py, lines
\* 11-12).
Percents == {0, 35, 50, 100}

\* Sizes of panel images, and the canvases _scale_to_cover makes of them for
\* the default frame: 1080 x 1920, 1440 x 1920, 1080 x 2560, 1221 x 1919.
BubbleTarget == <<1080, 1920>>
SourceSizes == {<<9, 16>>, <<3, 4>>, <<27, 64>>, <<7, 11>>}
CanvasSizes == {scale_to_cover(size, BubbleTarget) : size \in SourceSizes}

\* (bw, bh): the size of the bubble's box.
BoxSizes == {<<216, 192>>, <<648, 960>>}

\* int((pct / 100) * side) (lines 167-168, 199), in binary64.
abs_pos(pct, side) == IF pct = 0 THEN 0 ELSE IntOfProduct(side, pct, 100)

\* The box anchored by its centre: bx = abs_x - bw / 2.
bubble_box_centered(x_pct, y_pct, size, box) ==
    LET bx == abs_pos(x_pct, size[1]) - box[1] \div 2
        by == abs_pos(y_pct, size[2]) - box[2] \div 2
    IN  <<bx, by, bx + box[1], by + box[2]>>

\* render_bubble, lines 167-172 and 199: bx = abs_x, by = abs_y, the box is
\* drawn from (int(bx), int(by)) with the size (bw, bh); the clamping of
\* lines 175-176 is commented out.
bubble_box(x_pct, y_pct, size, box) ==
    LET bx == abs_pos(x_pct, size[1])
        by == abs_pos(y_pct, size[2])
    IN  <<bx, by, bx + box[1], by + box[2]>>

\* Image.crop (line 98): what is at (x, y) of the image is at
\* (x - left, y - top) of the result.
InCropped(b, crop) ==
    <<b[1] - crop[1], b[2] - crop[2], b[3] - crop[1], b[4] - crop[2]>>

BubbleInit ==
    /\ BuildIdle /\ GeomIdle /\ ConcIdle /\ RouteIdle /\ FidIdle /\ ScrollIdle
    /\ CallsIdle
    /\ bb_pc = "render"
    /\ bb_in \in [x_pct : Percents, y_pct : Percents, size : CanvasSizes,
                  box : BoxSizes]
    /\ bb_box = NoBox
    /\ bb_frame = NoBox

bubble_others == <<buildv, geomv, concv, routev, fidv, scrollv, callv, bb_in>>

\* img_with_bubble = self.render_bubble(base_scaled.copy(), ...) (line 355).
BubbleRender ==
    /\ bb_pc = "render"
    /\ bb_box' = bubble_box(bb_in.x_pct, bb_in.y_pct, bb_in.size, bb_in.box)
    /\ bb_pc' = "crop"
    /\ UNCHANGED <<bubble_others, bb_frame>>

\* frame_with_bubble = self._crop_center(img_with_bubble) (line 365).
BubbleCrop ==
    /\ bb_pc = "crop"
    /\ bb_frame' = InCropped(bb_box, crop_center(bb_in.size, BubbleTarget))
    /\ bb_pc' = "done"
    /\ UNCHANGED <<bubble_others, bb_box>>

BubbleNext == BubbleRender \/ BubbleCrop

SpecBubble == BubbleInit /\ [][BubbleNext]_vars

\* The whole number n is the point pct/100 * side cut to a pixel: the pixel
\* holding the point, or the one before it when the point is a whole number
\* that the rounding of pct / 100 falls short of.
PixelOf(n, pct, side) == 100 * n <= pct * side /\ pct * side <= 100 * (n + 1)

Unswallowed == {j \in DOMAIN errors : ~errors[j].swallowed}

\* The file at the path a build returned.
ReturnedFile ==
    IF result.path = "gen" THEN out_gen
    ELSE IF result.path = "user" THEN out_user
    ELSE out_ws

\* C26: the finally clause never changes what the build returns or raises.
\* After a failed removal of the workspace a build that encoded its video
\* still returns its path, which lies outside the workspace and holds the
\* complete file, and a failed build raises the error that made it fail,
\* never the error of the removal.  A failure to create the workspace is
\* raised to the caller before anything was drawn or encoded.
C26_CleanupNeverChangesOutcome ==
    /\ [][pc = "finally" => result' = result]_vars
    /\ [](Done /\ RmtreeErrors > 0 =>
            /\ errors[Len(errors)].swallowed
            /\ Returned =>
                  /\ result.path \in {"gen", "user"}
                  /\ ReturnedFile = "complete"
                  /\ Unswallowed = {}
            /\ Raised =>
                  /\ Cardinality(Unswallowed) = 1
                  /\ \A j \in Unswallowed :
                        /\ errors[j].site # "rmtree"
                        /\ errors[j].etype = result.error.etype)
    /\ [](ErrorAt({"mkdtemp"}) =>
            /\ Done /\ Raised
            /\ result.error.etype = "OSError"
            /\ Unswallowed = {1}
            /\ temp_dir = "none"
            /\ timeline = <<>> /\ enc_calls = 0)

\* A build that encoded its video, copied it out of the workspace, failed to
\* remove the workspace and returned the path of the copy.
C26_Witness ==
    /\ Done /\ Returned
    /\ RmtreeErrors = 1
    /\ temp_dir = "present"
    /\ result.path = "gen"
    /\ out_gen = "complete"

\* The build ended without having saved a frame.
EndedWithoutFrames == Done /\ frame_paths = <<>>

\* C28 as stated: the encoder is never invoked on an empty frame set; a
\* build that produced no frame fails before any encoder invocation, and
\* its workspace is removed.
C28_NoFramesNoEncoderWorkspaceRemoved ==
    /\ enc_calls > 0 => frame_paths # <<>>
    /\ EndedWithoutFrames =>
          /\ Raised
          /\ enc_calls = 0
          /\ temp_dir # "present"

\* C28, corrected: the encoder is never invoked on an empty frame set; a
\* build that produced no frame fails before any encoder invocation, and
\* the removal of its workspace is attempted: the workspace is gone unless
\* shutil.rmtree itself failed, which is logged and swallowed.
C28_NoFramesNoEncoder ==
    /\ enc_calls > 0 => frame_paths # <<>>
    /\ EndedWithoutFrames =>
          /\ Raised
          /\ enc_calls = 0
          /\ enc_proc = "none"
          /\ out_user = "absent" /\ out_gen = "absent"
          /\ temp_dir = "present" =>
                /\ RmtreeErrors = 1
                /\ errors[Len(errors)].site = "rmtree"
                /\ errors[Len(errors)].swallowed
          /\ (panel_idx = NumPanels /\ temp_dir # "none") =>
                /\ result.error.etype = "RuntimeError"
                /\ ErrorAt({"verify"})

\* A build of two panels whose every phase came to no frame: it failed at
\* the verification after the loop and removed its workspace.
C28_Witness ==
    /\ EndedWithoutFrames
    /\ NumPanels = 2
    /\ panel_idx = NumPanels
    /\ ErrorAt({"verify"})
    /\ temp_dir = "removed"

\* ====================================================================
\* Calls of run_fidelity_workflow in flight together
\* (routers/fidelity.py, lines 80-88; fidelity_workflow.py, line 388;
\*  evaluator.py, lines 130-136 and 309)
\* ====================================================================
\* Each POST /validate starts its run with asyncio.create_task: the runs
\* share the event loop and the module's fidelity_evaluator, and a run
\* gives way to the others at every await.
NumWorkflows == 2

NoVerdict == [fidelity_score |-> 0 - 1, is_valid |-> FALSE, threshold |-> 0 - 1]

CallsInit ==
    /\ BuildIdle /\ GeomIdle /\ ConcIdle /\ RouteIdle /\ ScrollIdle /\ BubbleIdle
    /\ wf_args = <<>> /\ wf_pc = "idle" /\ wf_state = <<>> /\ wf_response = <<>>
    /\ blind_read = <<>> /\ evaluations = 0 /\ loops = 0 /\ runs = <<>>
    /\ failures = {}
    /\ wf_threshold = 80
    /\ calls \in [1..NumWorkflows ->
                    [fidelity_threshold : Thresholds, pc : {"created"},
                     verdict : {NoVerdict}]]

calls_others == <<buildv, geomv, concv, routev, scrollv, bubblev, wf_args, wf_pc,
                  wf_state, wf_response, blind_read, evaluations, loops, runs,
                  failures>>

\* The task starts: run_fidelity_workflow runs up to the first await of
\* graph.ainvoke, setting the evaluator's threshold on the way (line 388).
CallStart(r) ==
    /\ calls[r].pc = "created"
    /\ wf_threshold' = calls[r].fidelity_threshold
    /\ calls' = [calls EXCEPT ![r].pc = "graph"]
    /\ UNCHANGED calls_others

\* The evaluator node of the run: the chain answers with a score and
\* `result["fidelity_score"] >= self.validation_threshold` (line 134) reads
\* the threshold the evaluator holds at that moment.
CallEvaluate(r) ==
    /\ calls[r].pc = "graph"
    /\ \E res \in EvaluatorOutputs(wf_threshold) :
          calls' = [calls EXCEPT ![r].pc = "evaluated",
                                 ![r].verdict =
                                     [fidelity_score |-> res.fidelity_score,
                                      is_valid |-> res.is_valid,
                                      threshold |-> wf_threshold]]
    /\ UNCHANGED <<calls_others, wf_threshold>>

\* The run returns its response.
CallReturn(r) ==
    /\ calls[r].pc = "evaluated"
    /\ calls' = [calls EXCEPT ![r].pc = "returned"]
    /\ UNCHANGED <<calls_others, wf_threshold>>

CallsNext ==
    \E r \in 1..NumWorkflows : CallStart(r) \/ CallEvaluate(r) \/ CallReturn(r)

SpecCalls == CallsInit /\ [][CallsNext]_vars

\* C29: every run is judged against its own fidelity_threshold: the verdict
\* of a run's evaluator is valid exactly when the score reaches the
\* threshold that run was called with.
C29_JudgedAgainstOwnThreshold ==
    \A r \in DOMAIN calls :
        calls[r].pc \in {"evaluated", "returned"} =>
            /\ calls[r].verdict.threshold = calls[r].fidelity_threshold
            /\ calls[r].verdict.is_valid =
                  (calls[r].verdict.fidelity_score >= calls[r].fidelity_threshold)

\* is_validated of the workflow state, FALSE before the run has a state.
IsValidated == wf_state # <<>> /\ Get(wf_state, "is_validated", FALSE)

\* C30: is_validated is written by completed evaluations only, so it is the
\* verdict of the last one; the response's iterations_used is the number of
\* completed evaluations and at most max_iterations; its status is
\* "validated" only if the last completed evaluation was valid and there is
\* no error, and "max_iterations_reached" only if exactly max_iterations
\* evaluations completed and the last was not valid.
C30_ResponseCountsEvaluations ==
    /\ [][/\ evaluations' = evaluations => IsValidated' = IsValidated
          /\ evaluations' # evaluations =>
                /\ evaluations' = evaluations + 1
                /\ IsValidated' =
                      (Get(wf_state', "fidelity_score", 0) >= wf_threshold)]_vars
    /\ [](evaluations = 0 => ~IsValidated)
    /\ [](wf_pc = "returned" =>
            /\ wf_response.iterations_used = evaluations
            /\ wf_response.iterations_used <= wf_args.max_iterations
            /\ wf_response.status = "validated" =>
                  /\ evaluations >= 1
                  /\ IsValidated
                  /\ ~Truthy(wf_response.error)
            /\ wf_response.status = "max_iterations_reached" =>
                  /\ evaluations = wf_args.max_iterations
                  /\ ~IsValidated)

\* A run that was validated by its second evaluation, and returned.
C30_Witness ==
    /\ wf_pc = "returned"
    /\ wf_response.status = "validated"
    /\ wf_response.iterations_used = 2
    /\ wf_args.max_iterations = 3

====
